---- MODULE Spec2Model ----
(***************************************************************************)
(* Telemetry analytics and root-cause inference pipeline of the Azure Arc   *)
(* deployment framework (src/Python/analysis).                              *)
(*                                                                          *)
(* Numbers are fixed point: confidences and impact scores are thousandths  *)
(* (700 = 0.7), incident metric values and thresholds are hundredths        *)
(* (92 = 0.92).  Telemetry column values are plain integers.                *)
(***************************************************************************)
EXTENDS Integers, Sequences, FiniteSets, TLC

VARIABLES rules, incident, rcaCall,
          tpConfig, telemetry_data, df, prepared, tpCall,
          recCauses, patterns_analysis,
          trainerConfig, feature_importance, remediation_buffer, mtCall,
          features_array, labels, paCall

vars == <<rules, incident, rcaCall, tpConfig, telemetry_data, df, prepared, tpCall,
          recCauses, patterns_analysis,
          trainerConfig, feature_importance, remediation_buffer, mtCall,
          features_array, labels, paCall>>
rcaVars == <<rules, incident, rcaCall>>
tpVars == <<tpConfig, telemetry_data, df, prepared, tpCall>>
recVars == <<recCauses, patterns_analysis>>
mtVars == <<trainerConfig, feature_importance, remediation_buffer, mtCall>>
paVars == <<features_array, labels, paCall>>

(***************************************************************************)
(* Generic helpers                                                          *)
(***************************************************************************)
Get(d, k, default) == IF k \in DOMAIN d THEN d[k] ELSE default

Truthy(d, k) == k \in DOMAIN d /\ d[k] # <<>>

Range(s) == {s[i] : i \in DOMAIN s}

Min2(a, b) == IF a <= b THEN a ELSE b

Abs(x) == IF x < 0 THEN -x ELSE x

EmptyMap == [x \in {} |-> 0]

NoCall == [op |-> "none"]

\* the analyzer and the trainer before any call on them
RcaIdle == rules = <<>> /\ incident = EmptyMap /\ rcaCall = NoCall

RecIdle == recCauses = <<>> /\ patterns_analysis = <<>>

TpIdle ==
    /\ tpConfig = EmptyMap /\ telemetry_data = <<>> /\ df = <<>>
    /\ prepared = 0 /\ tpCall = NoCall

TrainerIdle ==
    /\ trainerConfig = EmptyMap
    /\ feature_importance = EmptyMap
    /\ remediation_buffer = EmptyMap
    /\ mtCall = NoCall

\* the pattern analyzer before any call on it
ClustersIdle == features_array = <<>> /\ labels = <<>> /\ paCall = NoCall

(***************************************************************************)
(* Bounds                                                                   *)
(***************************************************************************)
MaxRules == 2

MaxRows == 3

\* remediation samples accepted in one run of the trainer
MaxAccepted == 11

\* accepted samples after which the caller repeats one payload
MaxVaried == 1

(***************************************************************************)
(* SimpleRCAEstimator                                                       *)
(***************************************************************************)
multi_condition_confidence_boost == 100

default_confidence == 600

ConfidenceCap == 950

FallbackType == "Unknown/Complex Issue"

FallbackCause ==
    [type |-> FallbackType, confidence |-> 300,
     recommendation |-> "Requires further detailed investigation. Review logs and full telemetry.",
     impact |-> 500,
     trigger_reason |-> <<"No specific rule matched the incident data.">>]

\* str.lower() on the words that occur in descriptions and keywords
Lower(w) == IF w = "CPU" THEN "cpu" ELSE w

LowerSeq(s) == [i \in DOMAIN s |-> Lower(s[i])]

\* the words of a keyword or rule name, in order
Words(kw) ==
    CASE kw = "net error" -> <<"net", "error">>
      [] OTHER -> <<kw>>

\* substr in str(key).lower(), for the metric names and substrings in use
NameContains(key, substr) ==
    \/ key = substr
    \/ substr = "cpu" /\ key \in {"cpu_usage_avg", "cpu_peak"}
    \/ substr = "mem" /\ key \in {"mem_usage"}
    \/ substr = "usage" /\ key \in {"cpu_usage_avg", "mem_usage"}
    \/ substr = "time" /\ key \in {"timestamp", "response_time"}

\* re.search(r'\b' + re.escape(kw.lower()) + r'\b', description):
\* the keyword's words occur as a contiguous run of whole words
KeywordFound(kw, description) ==
    LET w == LowerSeq(Words(kw))
    IN \E i \in 0..(Len(description) - Len(w)) :
          \A j \in 1..Len(w) : description[i + j] = w[j]

\* mutant: substring search without the word boundaries
KeywordFoundSubstring(kw, description) ==
    LET w == LowerSeq(Words(kw))
    IN \/ KeywordFound(kw, description)
       \/ Len(w) = 1 /\ w[1] = "cpu" /\ "cpus" \in Range(description)

KeywordMatch(kw, description) == KeywordFound(kw, description)

ReservedKeys == {"description", "metrics", "metrics_timeseries", "timestamp",
                 "priority", "incident_id"}

\* lines 100-104: the description and the metric mapping of an incident
IncidentDescription(incident_data) ==
    LowerSeq(Get(incident_data, "description", <<>>))

\* mutant: only a nested metrics mapping is read
NestedOnly(incident_data) == Get(incident_data, "metrics", EmptyMap)

NestedOrTopLevel(incident_data) ==
    LET metrics == Get(incident_data, "metrics", EmptyMap)
    IN IF DOMAIN metrics = {}
       THEN [k \in (DOMAIN incident_data) \ ReservedKeys |-> incident_data[k]]
       ELSE metrics

IncidentMetrics(incident_data) == NestedOrTopLevel(incident_data)

None == [k |-> "none"]

NumV(n) == [k |-> "num", v |-> n]

NaNV == [k |-> "nan"]

StrV == [k |-> "str"]

BoolV(b) == [k |-> "bool", t |-> b]

TextV(s) == [k |-> "text", s |-> s]

SetMax(S) == CHOOSE m \in S : \A x \in S : x <= m

\* _metric_value_from_contains
MetricValueFromContains(metrics, substr) ==
    LET candidates == {metrics[key].v : key \in {kk \in DOMAIN metrics :
                          NameContains(kk, Lower(substr)) /\ metrics[kk].k = "num"}}
    IN IF candidates = {} THEN None ELSE NumV(SetMax(candidates))

SupportedOperators == {">", ">=", "<", "<=", "=="}

\* lines 191-196; comparisons with NaN are False
Compare(val, operator, threshold) ==
    /\ val.k = "num"
    /\ CASE operator = ">" -> val.v > threshold
         [] operator = ">=" -> val.v >= threshold
         [] operator = "<" -> val.v < threshold
         [] operator = "<=" -> val.v <= threshold
         [] operator = "==" -> val.v = threshold
         [] OTHER -> FALSE

\* lines 122-141: the simplified rule schema
WithDefaultKeywords(rule_name, rule_details) ==
    IF "keywords_any" \notin DOMAIN rule_details /\ "keywords_all" \notin DOMAIN rule_details
    THEN [k \in (DOMAIN rule_details) \cup {"keywords_any"} |->
             IF k = "keywords_any" THEN <<rule_name>> ELSE rule_details[k]]
    ELSE rule_details

\* mutant: the rule name is not injected as a keyword
WithoutDefaultKeywords(rule_name, rule_details) == rule_details

NormalizeKeywords(rule_name, rule_details) == WithDefaultKeywords(rule_name, rule_details)

NormalizeRule(rule_name, rule_details) ==
    LET r1 == NormalizeKeywords(rule_name, rule_details)
    IN IF "metrics_thresholds" \notin DOMAIN r1 /\ "metric_threshold" \in DOMAIN r1
       THEN [k \in (DOMAIN r1) \cup {"metrics_thresholds"} |->
               IF k = "metrics_thresholds"
               THEN <<[metric_contains |-> rule_name,
                       threshold |-> r1["metric_threshold"],
                       operator |-> ">"]>>
               ELSE r1[k]]
       ELSE r1

\* lines 144-154
KeywordMatchAllMet(r, description) ==
    Truthy(r, "keywords_all") =>
        \A i \in DOMAIN r["keywords_all"] : KeywordMatch(r["keywords_all"][i], description)

\* lines 156-167
MatchedAnyKws(r, description) ==
    SelectSeq(Get(r, "keywords_any", <<>>), LAMBDA kw : KeywordMatch(kw, description))

KeywordMatchAnyMet(r, description) ==
    Truthy(r, "keywords_any") => MatchedAnyKws(r, description) # <<>>

\* lines 174-184
ConditionValue(cond, metrics) ==
    IF "metric" \in DOMAIN cond
    THEN Get(metrics, cond["metric"], None)
    ELSE IF "metric_contains" \in DOMAIN cond
         THEN MetricValueFromContains(metrics, cond["metric_contains"])
         ELSE None

\* lines 173-202: [ok |-> all_metrics_match, reasons |-> the trigger reasons appended]
RECURSIVE EvalConditions(_, _, _)
EvalConditions(conds, i, metrics) ==
    IF i > Len(conds) THEN [ok |-> TRUE, reasons |-> <<>>]
    ELSE LET cond == conds[i]
             metric_val == ConditionValue(cond, metrics)
             operator == Get(cond, "operator", ">")
             threshold == cond["threshold"]
             rest == EvalConditions(conds, i + 1, metrics)
         IN IF metric_val.k = "none" THEN [ok |-> FALSE, reasons |-> <<>>]
            ELSE IF metric_val.k = "str" THEN [ok |-> FALSE, reasons |-> <<>>]
            ELSE IF operator \notin SupportedOperators THEN rest
            ELSE IF Compare(metric_val, operator, threshold)
                 THEN [ok |-> rest.ok,
                       reasons |-> <<<<"metric", Get(cond, "metric", "None"), metric_val,
                                       operator, threshold>>>> \o rest.reasons]
                 ELSE [ok |-> FALSE, reasons |-> <<>>]

\* lines 170-204
MetricThresholdsMet(r, metrics) ==
    Truthy(r, "metrics_thresholds") => EvalConditions(r["metrics_thresholds"], 1, metrics).ok

\* lines 207-217
RuleTriggered(r, description, metrics) ==
    LET has_keyword_conditions == Truthy(r, "keywords_all") \/ Truthy(r, "keywords_any")
        has_metric_conditions == Truthy(r, "metrics_thresholds")
    IN IF has_keyword_conditions /\ has_metric_conditions
       THEN /\ KeywordMatchAllMet(r, description)
            /\ KeywordMatchAnyMet(r, description)
            /\ MetricThresholdsMet(r, metrics)
       ELSE IF has_keyword_conditions
            THEN KeywordMatchAllMet(r, description) /\ KeywordMatchAnyMet(r, description)
            ELSE IF has_metric_conditions
                 THEN MetricThresholdsMet(r, metrics)
                 ELSE FALSE

\* round(x, 2) on thousandths; no value in use lies exactly half way
Round2(x) == ((x + 5) \div 10) * 10

\* mutant: the confidence is stored without rounding
NoRound(x) == x

RoundConfidence(x) == Round2(x)

BoostCapped(c) == Min2(ConfidenceCap, c + multi_condition_confidence_boost)

\* mutant: the boost is added without the 0.95 cap
BoostUncapped(c) == c + multi_condition_confidence_boost

Boosted(c) == BoostCapped(c)

\* lines 220-231
FinalConfidence(r, description, metrics) ==
    LET base == Get(r, "base_confidence", default_confidence)
        keyword_group == \/ (KeywordMatchAllMet(r, description) /\ Truthy(r, "keywords_all"))
                         \/ (KeywordMatchAnyMet(r, description) /\ Truthy(r, "keywords_any"))
        metric_group == MetricThresholdsMet(r, metrics) /\ Truthy(r, "metrics_thresholds")
    IN IF keyword_group /\ metric_group THEN Boosted(base) ELSE base

\* the trigger reasons in the order the code appends them
TriggerReasons(r, description, metrics) ==
    (IF Truthy(r, "keywords_all") /\ KeywordMatchAllMet(r, description)
     THEN <<<<"all", r["keywords_all"]>>>> ELSE <<>>)
    \o (IF Truthy(r, "keywords_any") /\ KeywordMatchAnyMet(r, description)
        THEN <<<<"any", MatchedAnyKws(r, description)>>>> ELSE <<>>)
    \o (IF Truthy(r, "metrics_thresholds")
        THEN EvalConditions(r["metrics_thresholds"], 1, metrics).reasons ELSE <<>>)

\* lines 233-239
Candidate(r, description, metrics) ==
    [type |-> Get(r, "cause", "Unknown"),
     confidence |-> RoundConfidence(FinalConfidence(r, description, metrics)),
     recommendation |-> Get(r, "recommendation", "Review incident details."),
     impact |-> Get(r, "impact_score", 500),
     trigger_reason |-> TriggerReasons(r, description, metrics)]

\* lines 118-240: the candidates of the rules that fire, in rule order
RECURSIVE CollectCauses(_, _, _, _)
CollectCauses(rs, i, description, metrics) ==
    IF i > Len(rs) THEN <<>>
    ELSE LET r == NormalizeRule(rs[i][1], rs[i][2])
         IN (IF RuleTriggered(r, description, metrics)
             THEN <<Candidate(r, description, metrics)>> ELSE <<>>)
            \o CollectCauses(rs, i + 1, description, metrics)

\* the sort key (x['impact'], x['confidence']) compared as a tuple
KeyLess(a, b) ==
    \/ a.impact < b.impact
    \/ a.impact = b.impact /\ a.confidence < b.confidence

\* list.sort(key=..., reverse=True): descending and stable
RECURSIVE InsertDesc(_, _)
InsertDesc(sorted, x) ==
    IF sorted = <<>> THEN <<x>>
    ELSE IF KeyLess(Head(sorted), x)
         THEN <<x>> \o sorted
         ELSE <<Head(sorted)>> \o InsertDesc(Tail(sorted), x)

RECURSIVE StableSortDesc(_)
StableSortDesc(s) ==
    IF s = <<>> THEN <<>>
    ELSE InsertDesc(StableSortDesc(SubSeq(s, 1, Len(s) - 1)), s[Len(s)])

Reverse(s) == [i \in DOMAIN s |-> s[Len(s) + 1 - i]]

\* mutant: ascending stable sort followed by a reversal, which flips ties
SortAscThenReverse(s) == StableSortDesc(Reverse(s))

SortCauses(s) == StableSortDesc(s)

AddFallback(causes) == IF causes = <<>> THEN <<FallbackCause>> ELSE causes

\* mutant: an empty candidate list is returned as it is
NoFallback(causes) == causes

WithFallback(causes) == AddFallback(causes)

\* SimpleRCAEstimator.predict_root_cause
predict_root_cause(rs, incident_data) ==
    SortCauses(WithFallback(
        CollectCauses(rs, 1, IncidentDescription(incident_data),
                      IncidentMetrics(incident_data))))

\* RootCauseAnalyzer.analyze_incident, lines 393-416: the ranked causes and
\* the primary suspected cause
analyze_incident(rs, incident_data) ==
    LET predicted_causes == predict_root_cause(rs, incident_data)
        base == [incident_description |-> Get(incident_data, "description", <<"N/A">>),
                 predicted_root_causes |-> predicted_causes]
    IN IF predicted_causes # <<>>
       THEN [k \in (DOMAIN base) \cup {"primary_suspected_cause"} |->
                IF k = "primary_suspected_cause" THEN predicted_causes[1] ELSE base[k]]
       ELSE base

(***************************************************************************)
(* Inputs of the root-cause estimator                                       *)
(***************************************************************************)
RuleCatalogue == <<
    <<"cpu", [cause |-> "CPU Overload Test", recommendation |-> "Test Scale CPU.",
              impact_score |-> 700, metric_threshold |-> 75]>>,
    <<"net error", [cause |-> "Network Error Test", recommendation |-> "Test Check network.",
                    impact_score |-> 900]>>,
    <<"cpu_rule", [keywords_any |-> <<"cpu", "processor">>,
                   metrics_thresholds |-> <<[metric |-> "cpu_usage_avg", threshold |-> 90,
                                             operator |-> ">="]>>,
                   cause |-> "CPU Overload",
                   recommendation |-> "Scale CPU resources or optimize high-CPU processes.",
                   impact_score |-> 700, base_confidence |-> 600]>>,
    <<"application_error_rule", [keywords_all |-> <<"app">>,
                   keywords_any |-> <<"error", "failed">>,
                   cause |-> "Application Code Error",
                   recommendation |-> "Review application logs.",
                   impact_score |-> 750, base_confidence |-> 652]>>,
    <<"mem_only", [keywords_any |-> <<>>,
                   metrics_thresholds |-> <<[metric |-> "mem_usage", threshold |-> 90,
                                             operator |-> ">"]>>,
                   cause |-> "Memory Exhaustion",
                   recommendation |-> "Increase memory or investigate memory leaks.",
                   impact_score |-> 800, base_confidence |-> 1200]>>,
    <<"mem", [metrics_thresholds |-> <<[metric |-> "mem_usage", threshold |-> 90,
                                        operator |-> ">="]>>,
              cause |-> "Memory Pressure", impact_score |-> 800, base_confidence |-> 758]>>,
    <<"odd_operator_rule", [keywords_any |-> <<"net">>,
                   metrics_thresholds |-> <<[metric |-> "cpu_usage_avg", threshold |-> 50,
                                             operator |-> "!="]>>,
                   cause |-> "Network Saturation", base_confidence |-> 900]>>,
    <<"usage_rule", [keywords_all |-> <<"cpu">>,
                   metrics_thresholds |-> <<[metric |-> "cpu_peak", threshold |-> 70],
                                            [metric_contains |-> "usage", threshold |-> 95,
                                             operator |-> "<="]>>,
                   cause |-> "Sustained Load", impact_score |-> 700,
                   base_confidence |-> 870]>>
  >>

\* rule mappings: rules of the catalogue under distinct names, in insertion order
RECURSIVE RuleLists(_)
RuleLists(n) ==
    IF n = 0 THEN {<<>>}
    ELSE LET shorter == RuleLists(n - 1)
         IN shorter \cup
            {Append(rs, RuleCatalogue[i]) :
                <<rs, i>> \in {p \in shorter \X DOMAIN RuleCatalogue :
                                  /\ Len(p[1]) = n - 1
                                  /\ \A j \in DOMAIN p[1] : p[1][j] # RuleCatalogue[p[2]]}}

Descriptions == {
    <<>>,
    <<"high", "CPU", "usage">>,
    <<"cpus", "busy">>,
    <<"net", "error">>,
    <<"error", "net">>,
    <<"app", "error">>,
    <<"app", "slow">>,
    <<"mem", "cpu">>,
    <<"cpu", "net", "error">>,
    <<"app", "net", "error">> }

CpuValues == {NumV(50), NumV(92), NaNV, StrV}

MetricMaps ==
    {m \in UNION {[S -> CpuValues \cup {NumV(80), NumV(95)}] :
                     S \in SUBSET {"cpu_usage_avg", "cpu_peak", "mem_usage"}} :
        /\ "cpu_usage_avg" \in DOMAIN m => m["cpu_usage_avg"] \in CpuValues
        /\ "cpu_peak" \in DOMAIN m => m["cpu_peak"] = NumV(80)
        /\ "mem_usage" \in DOMAIN m => m["mem_usage"] = NumV(95)}

\* the same metrics nested under "metrics" or flattened to top-level fields
NestedIncident(desc, m) == [description |-> desc, priority |-> StrV, metrics |-> m]

FlatIncident(desc, m) ==
    [k \in {"description", "priority"} \cup DOMAIN m |->
        IF k = "description" THEN desc ELSE IF k = "priority" THEN StrV ELSE m[k]]

FlatDescriptions == {<<>>, <<"high", "CPU", "usage">>, <<"mem", "cpu">>}

Incidents ==
    {NestedIncident(d, m) : d \in Descriptions, m \in MetricMaps}
    \cup {FlatIncident(d, m) : d \in FlatDescriptions, m \in MetricMaps}

(***************************************************************************)
(* Root-cause estimation as a state machine: one call per step              *)
(***************************************************************************)
RcaInit ==
    /\ rules \in RuleLists(MaxRules)
    /\ incident \in Incidents
    /\ rcaCall = NoCall
    /\ TpIdle /\ RecIdle /\ TrainerIdle /\ ClustersIdle

PredictRootCause ==
    /\ rcaCall' = [op |-> "predict_root_cause",
                   out |-> predict_root_cause(rules, incident)]
    /\ UNCHANGED <<rules, incident, tpVars, recVars, mtVars, paVars>>

AnalyzeIncident ==
    /\ rcaCall' = [op |-> "analyze_incident",
                   out |-> analyze_incident(rules, incident)]
    /\ UNCHANGED <<rules, incident, tpVars, recVars, mtVars, paVars>>

RcaNext == PredictRootCause \/ AnalyzeIncident

SpecRCA == RcaInit /\ [][RcaNext]_vars

(***************************************************************************)
(* Properties of the root-cause estimator                                   *)
(***************************************************************************)
Predicted == rcaCall.op = "predict_root_cause"

CauseOf(i) == Get(rules[i][2], "cause", "Unknown")

TypesOf(causes) == {causes[i].type : i \in DOMAIN causes}

\* the rules whose candidate is in a cause list (causes are distinct per rule)
FiredIn(causes) == {i \in DOMAIN rules : CauseOf(i) \in TypesOf(causes)}

CandidateOf(causes, i) == causes[CHOOSE j \in DOMAIN causes : causes[j].type = CauseOf(i)]

\* the rules that fire on the incident, by the estimator's trigger decision
FiringRules ==
    {i \in DOMAIN rules :
        RuleTriggered(NormalizeRule(rules[i][1], rules[i][2]),
                      IncidentDescription(incident), IncidentMetrics(incident))}

\* C1: predict_root_cause returns a non-empty list; when no rule fires it is
\* exactly the single "Unknown/Complex Issue" candidate with confidence 0.3;
\* when a rule fires the fallback candidate is not in the list.
C1_AlwaysACandidate ==
    Predicted =>
        /\ Len(rcaCall.out) >= 1
        /\ FiringRules = {} =>
              /\ Len(rcaCall.out) = 1
              /\ rcaCall.out[1].type = FallbackType
              /\ rcaCall.out[1].confidence = 300
        /\ FiringRules # {} => FallbackType \notin TypesOf(rcaCall.out)

C1_Witness ==
    /\ Predicted
    /\ rules # <<>>
    /\ FiringRules = {}
    /\ rcaCall.out = <<FallbackCause>>

\* C2: the returned list is in descending (impact, confidence) order, equal
\* keys keep the order of the rule mapping, and analyze_incident reports the
\* first element as primary_suspected_cause, which has the maximum impact.
SortedByImpactConfidence(causes) ==
    \A i, j \in DOMAIN causes :
        i < j =>
            /\ ~KeyLess(causes[i], causes[j])
            /\ (causes[i].impact = causes[j].impact
                 /\ causes[i].confidence = causes[j].confidence
                 /\ causes[i].type # FallbackType)
                => (CHOOSE a \in DOMAIN rules : CauseOf(a) = causes[i].type)
                    < (CHOOSE b \in DOMAIN rules : CauseOf(b) = causes[j].type)

C2_RankedCauses ==
    /\ Predicted => SortedByImpactConfidence(rcaCall.out)
    /\ rcaCall.op = "analyze_incident" =>
          LET causes == rcaCall.out["predicted_root_causes"]
          IN /\ SortedByImpactConfidence(causes)
             /\ "primary_suspected_cause" \in DOMAIN rcaCall.out
             /\ rcaCall.out["primary_suspected_cause"] = causes[1]
             /\ \A i \in DOMAIN causes :
                    causes[i].impact <= rcaCall.out["primary_suspected_cause"].impact

C2_Witness ==
    /\ rcaCall.op = "analyze_incident"
    /\ LET causes == rcaCall.out["predicted_root_causes"]
       IN /\ Len(causes) = 2
          /\ causes[1].impact = causes[2].impact
          /\ causes[1].confidence = causes[2].confidence
          /\ causes[1].type # causes[2].type

\* the condition groups a rule has once the simplified schema is expanded
EffKeywordsAll(i) == Get(rules[i][2], "keywords_all", <<>>)

EffKeywordsAny(i) ==
    IF "keywords_any" \in DOMAIN rules[i][2] THEN rules[i][2]["keywords_any"]
    ELSE IF "keywords_all" \in DOMAIN rules[i][2] THEN <<>>
         ELSE <<rules[i][1]>>

EffConditions(i) ==
    IF "metrics_thresholds" \in DOMAIN rules[i][2] THEN rules[i][2]["metrics_thresholds"]
    ELSE IF "metric_threshold" \in DOMAIN rules[i][2]
         THEN <<[metric_contains |-> rules[i][1],
                 threshold |-> rules[i][2]["metric_threshold"], operator |-> ">"]>>
         ELSE <<>>

HasKeywordGroup(i) == EffKeywordsAll(i) # <<>> \/ EffKeywordsAny(i) # <<>>

HasMetricGroup(i) == EffConditions(i) # <<>>

BaseConfidence(i) == Get(rules[i][2], "base_confidence", default_confidence)

\* C3 as stated: a fired rule's confidence is min(0.95, base + boost) when a
\* keyword group and a metric-threshold group are both satisfied, and the
\* base confidence (or the default) when it fired on a single group.
C3_ConfidenceUnrounded ==
    Predicted =>
        \A i \in FiredIn(rcaCall.out) :
            CandidateOf(rcaCall.out, i).confidence =
                IF HasKeywordGroup(i) /\ HasMetricGroup(i)
                THEN Min2(950, BaseConfidence(i) + multi_condition_confidence_boost)
                ELSE BaseConfidence(i)

\* nearest multiple of 0.01, written without the estimator's rounding operator
NearestHundredth(x) == CHOOSE y \in {10 * n : n \in 0..200} : 2 * Abs(x - y) < 10

\* C3 amended: the same two values, each rounded to two decimal places.
C3_ConfidenceRounded ==
    Predicted =>
        \A i \in FiredIn(rcaCall.out) :
            CandidateOf(rcaCall.out, i).confidence =
                IF HasKeywordGroup(i) /\ HasMetricGroup(i)
                THEN NearestHundredth(
                         Min2(950, BaseConfidence(i) + multi_condition_confidence_boost))
                ELSE NearestHundredth(BaseConfidence(i))

\* a boosted candidate whose exact value is capped, next to an unboosted one
\* whose base confidence has three decimals
C3_Witness ==
    /\ Predicted
    /\ \E i, j \in FiredIn(rcaCall.out) :
          /\ HasKeywordGroup(i) /\ HasMetricGroup(i)
          /\ BaseConfidence(i) + multi_condition_confidence_boost > 950
          /\ CandidateOf(rcaCall.out, i).confidence = 950
          /\ ~HasMetricGroup(j)
          /\ BaseConfidence(j) = 652
          /\ CandidateOf(rcaCall.out, j).confidence = 650

\* the value a metric condition reads from the incident
CondValue(cond) ==
    LET m == IncidentMetrics(incident)
    IN IF "metric" \in DOMAIN cond
       THEN (IF cond["metric"] \in DOMAIN m THEN m[cond["metric"]] ELSE None)
       ELSE LET hits == {k \in DOMAIN m : NameContains(k, cond["metric_contains"])
                                           /\ m[k].k = "num"}
            IN IF hits = {} THEN None
               ELSE NumV(CHOOSE x \in {m[k].v : k \in hits} :
                            \A k \in hits : m[k].v <= x)

Holds(v, op, t) ==
    \/ op = ">" /\ v > t
    \/ op = ">=" /\ v >= t
    \/ op = "<" /\ v < t
    \/ op = "<=" /\ v <= t
    \/ op = "==" /\ v = t
    \/ op = "!=" /\ v # t

CondOperator(cond) == IF "operator" \in DOMAIN cond THEN cond["operator"] ELSE ">"

\* a threshold condition is met: a numeric value is there and the comparison holds
ThresholdMet(cond) ==
    /\ CondValue(cond).k = "num"
    /\ Holds(CondValue(cond).v, CondOperator(cond), cond["threshold"])

\* what the estimator requires of a condition: a value that is not missing and
\* not text, and the comparison when the operator is one of > >= < <= ==
ThresholdPassed(cond) ==
    /\ CondValue(cond).k \in {"num", "nan"}
    /\ CondOperator(cond) \in {">", ">=", "<", "<=", "=="} => ThresholdMet(cond)

WordsPresent(kw) == KeywordFound(kw, LowerSeq(Get(incident, "description", <<>>)))

\* C4 as stated: a rule fires iff every condition group it configures is
\* satisfied, so a rule with only metric thresholds fires on the metrics alone.
ConfiguredGroupsSatisfied(i) ==
    LET d == rules[i][2]
        conds == EffConditions(i)
    IN /\ \A k \in DOMAIN Get(d, "keywords_all", <<>>) : WordsPresent(d["keywords_all"][k])
       /\ Get(d, "keywords_any", <<>>) # <<>> =>
             \E k \in DOMAIN d["keywords_any"] : WordsPresent(d["keywords_any"][k])
       /\ \A k \in DOMAIN conds : ThresholdMet(conds[k])

C4_FiresOnConfiguredGroups ==
    Predicted =>
        \A i \in DOMAIN rules :
            i \in FiredIn(rcaCall.out) <=> ConfiguredGroupsSatisfied(i)

\* C4 amended: a rule fires iff every group of its expanded configuration is
\* satisfied, the rule name standing in as the keywords_any keyword when the
\* rule has no keyword key, and a condition with an operator outside
\* > >= < <= == being skipped.
EffectiveGroupsSatisfied(i) ==
    /\ HasKeywordGroup(i) \/ HasMetricGroup(i)
    /\ \A k \in DOMAIN EffKeywordsAll(i) : WordsPresent(EffKeywordsAll(i)[k])
    /\ EffKeywordsAny(i) # <<>> =>
          \E k \in DOMAIN EffKeywordsAny(i) : WordsPresent(EffKeywordsAny(i)[k])
    /\ \A k \in DOMAIN EffConditions(i) : ThresholdPassed(EffConditions(i)[k])

C4_FiresOnEffectiveGroups ==
    Predicted =>
        \A i \in DOMAIN rules :
            i \in FiredIn(rcaCall.out) <=> EffectiveGroupsSatisfied(i)

\* a rule with metric thresholds and no keyword key: its thresholds are met
\* but it stays silent because its name is not in the description, while a
\* rule with an explicitly empty keyword list fires on the metrics alone
C4_Witness ==
    /\ Predicted
    /\ \E i, j \in DOMAIN rules :
          /\ DOMAIN rules[i][2] \cap {"keywords_any", "keywords_all"} = {}
          /\ "metrics_thresholds" \in DOMAIN rules[i][2]
          /\ \A k \in DOMAIN EffConditions(i) : ThresholdMet(EffConditions(i)[k])
          /\ i \notin FiredIn(rcaCall.out)
          /\ Get(rules[j][2], "keywords_any", <<"x">>) = <<>>
          /\ j \in FiredIn(rcaCall.out)

InUnitInterval(x) == 0 <= x /\ x <= 1000

\* C16: every candidate returned by predict_root_cause, for every configured
\* rule set and every incident, has confidence in [0,1] and impact in [0,1].
C16_ConfidenceAndImpactInUnitInterval ==
    Predicted =>
        \A i \in DOMAIN rcaCall.out :
            /\ InUnitInterval(rcaCall.out[i].confidence)
            /\ InUnitInterval(rcaCall.out[i].impact)

\* what the code does keep: a candidate of a rule whose base confidence and
\* impact score are configured within [0,1] is within [0,1]
C16_InRangeWhenConfiguredInRange ==
    Predicted =>
        \A i \in FiredIn(rcaCall.out) :
            (/\ InUnitInterval(BaseConfidence(i))
             /\ InUnitInterval(Get(rules[i][2], "impact_score", 500))) =>
                /\ InUnitInterval(CandidateOf(rcaCall.out, i).confidence)
                /\ InUnitInterval(CandidateOf(rcaCall.out, i).impact)

(***************************************************************************)
(* TelemetryProcessor: frames                                               *)
(*                                                                          *)
(* A DataFrame is [cols, rows, ts_dtype]: the column names in order, the    *)
(* rows as records over the columns, and the dtype of the timestamp column. *)
(* A cell is NumV(n), NaNV (missing) or StrV; a timestamp cell is NumV(t),  *)
(* t the instant.                                                           *)
(***************************************************************************)
Frame(cols, rows, ts_dtype) == [cols |-> cols, rows |-> rows, ts_dtype |-> ts_dtype]

HasCol(frame, c) == c \in Range(frame.cols)

Column(frame, c) == [i \in DOMAIN frame.rows |-> frame.rows[i][c]]

\* select_dtypes(include=np.number): every cell is a number or NaN
IsNumericCol(frame, c) ==
    /\ c # "timestamp"
    /\ \A i \in DOMAIN frame.rows : frame.rows[i][c].k \in {"num", "nan"}

NumericCols(frame) == SelectSeq(frame.cols, LAMBDA c : IsNumericCol(frame, c))

\* the present values of a column, in row order
Present(col) == SelectSeq(col, LAMBDA x : x.k = "num")

RECURSIVE SumSeq(_)
SumSeq(s) == IF s = <<>> THEN 0 ELSE Head(s) + SumSeq(Tail(s))

Vals(col) == [i \in DOMAIN Present(col) |-> Present(col)[i].v]

RECURSIVE InsertAsc(_, _)
InsertAsc(sorted, x) ==
    IF sorted = <<>> THEN <<x>>
    ELSE IF x < Head(sorted) THEN <<x>> \o sorted
         ELSE <<Head(sorted)>> \o InsertAsc(Tail(sorted), x)

RECURSIVE SortAsc(_)
SortAsc(s) == IF s = <<>> THEN <<>> ELSE InsertAsc(SortAsc(Tail(s)), Head(s))

\* Series.mean() / Series.median() of the present values; the batches in use
\* have integral means and medians
SeriesMean(col) == SumSeq(Vals(col)) \div Len(Vals(col))

SeriesMedian(col) ==
    LET v == SortAsc(Vals(col))
        n == Len(v)
    IN IF n % 2 = 1 THEN v[(n + 1) \div 2]
       ELSE (v[n \div 2] + v[n \div 2 + 1]) \div 2

\* lines 122-132
NumericFillValue(col, strategy) ==
    IF strategy = "zero" THEN 0
    ELSE IF Vals(col) = <<>> THEN 0
         ELSE IF strategy = "median" THEN SeriesMedian(col) ELSE SeriesMean(col)

\* Series.fillna: NaN and None are the missing values
FillCell(x, fill) == IF x.k \in {"nan", "none"} THEN fill ELSE x

\* mutant: every cell of a numeric column is overwritten with the fill value
OverwriteCell(x, fill) == fill

FillNa(x, fill) == FillCell(x, fill)

\* the dtype pandas gives a column: a number column holds numbers and NaN,
\* a bool column holds nothing but bools (it cannot hold a missing value),
\* and a column of texts, or of anything next to None, is an object column
ColumnKind(frame, c) ==
    IF c = "timestamp" THEN "datetime"
    ELSE IF \A i \in DOMAIN frame.rows : frame.rows[i][c].k \in {"num", "nan"} THEN "number"
    ELSE IF \A i \in DOMAIN frame.rows : frame.rows[i][c].k = "bool" THEN "bool"
    ELSE "object"

\* mutant: the gaps of an object column are filled like those of a bool column
FalseFill(categorical_fill) == BoolV(FALSE)

\* line 135: the value the gaps of an object column are filled with
ObjectFill(categorical_fill) == TextV(categorical_fill)

\* TelemetryProcessor._handle_missing_values
handle_missing_values(frame, config) ==
    LET strategy == Get(config, "numerical_nan_fill_strategy", "mean")
        categorical_fill == Get(config, "categorical_nan_fill_strategy", "unknown")
        filled(c) == IF ColumnKind(frame, c) = "number"
                     THEN LET fv == NumV(NumericFillValue(Column(frame, c), strategy))
                          IN [i \in DOMAIN frame.rows |-> FillNa(frame.rows[i][c], fv)]
                     ELSE IF ColumnKind(frame, c) = "object"
                     THEN [i \in DOMAIN frame.rows |->
                              FillNa(frame.rows[i][c], ObjectFill(categorical_fill))]
                     ELSE IF ColumnKind(frame, c) = "bool"
                     THEN [i \in DOMAIN frame.rows |->
                              FillNa(frame.rows[i][c], BoolV(FALSE))]
                     ELSE Column(frame, c)
    IN [frame EXCEPT !.rows = [i \in DOMAIN frame.rows |->
                                  [c \in Range(frame.cols) |-> filled(c)[i]]]]

\* pd.to_datetime on the timestamp column
ToDatetime(frame) ==
    IF HasCol(frame, "timestamp") THEN [frame EXCEPT !.ts_dtype = "datetime64[ns]"]
    ELSE frame

\* mutant: no row is dropped
KeepAllRows(rows) == rows

\* DataFrame.drop_duplicates(): the first of equal rows is kept
RECURSIVE DropDuplicateRows(_)
DropDuplicateRows(rows) ==
    IF rows = <<>> THEN <<>>
    ELSE LET init == DropDuplicateRows(SubSeq(rows, 1, Len(rows) - 1))
             last == rows[Len(rows)]
         IN IF last \in Range(init) THEN init ELSE Append(init, last)

DropDuplicates(rows) == DropDuplicateRows(rows)

RowOrders(n) == {f \in [1..n -> 1..n] : \A i, j \in 1..n : i # j => f[i] # f[j]}

\* DataFrame.sort_values('timestamp') with the default kind='quicksort', which
\* is not stable: rows with equal timestamps may come out in any order
SortValuesOutcomes(rows) ==
    {[i \in DOMAIN rows |-> rows[f[i]]] : f \in
        {g \in RowOrders(Len(rows)) :
            \A i, j \in DOMAIN rows :
                i < j => rows[g[i]]["timestamp"].v <= rows[g[j]]["timestamp"].v}}

\* TelemetryProcessor._prepare_data: the frames it can return
prepare_data(frame, config) ==
    LET filled == ToDatetime(handle_missing_values(frame, config))
        unique == [filled EXCEPT !.rows = DropDuplicates(filled.rows)]
    IN IF HasCol(unique, "timestamp")
       THEN {[unique EXCEPT !.rows = r] : r \in SortValuesOutcomes(unique.rows)}
       ELSE {unique}

(***************************************************************************)
(* Normalisation as a state machine: _prepare_data applied again and again  *)
(***************************************************************************)
RECURSIVE SeqsUpTo(_, _)
SeqsUpTo(S, n) ==
    IF n = 0 THEN {<<>>}
    ELSE LET shorter == SeqsUpTo(S, n - 1)
         IN shorter \cup {Append(q, x) : q \in {t \in shorter : Len(t) = n - 1}, x \in S}

Project(row, cols) == [c \in Range(cols) |-> row[c]]

RawRows ==
    [timestamp : {NumV(1), NumV(2)}, cpu_usage : {NaNV, NumV(12), NumV(24)}]

\* rows with a categorical and a boolean field, either of which may be missing
MixedRows ==
    [cpu_usage : {NaNV, NumV(12)}, categorical_feat : {None, TextV("A")},
     bool_feat : {None, BoolV(TRUE)}]

RawFrames ==
    {Frame(cols, [i \in DOMAIN rows |-> Project(rows[i], cols)], dt) :
        cols \in {<<"timestamp", "cpu_usage">>, <<"cpu_usage">>},
        rows \in SeqsUpTo(RawRows, MaxRows),
        dt \in {"object", "datetime64[ns]"}}
    \cup
    {Frame(cols, [i \in DOMAIN rows |-> Project(rows[i], cols)], "object") :
        cols \in {<<"cpu_usage", "categorical_feat">>, <<"categorical_feat", "bool_feat">>,
                  <<"bool_feat">>},
        rows \in SeqsUpTo(MixedRows, MaxRows)}

FillStrategies == {"mean", "median", "zero"}

PrepareConfigs ==
    [numerical_nan_fill_strategy : FillStrategies] \cup
    {EmptyMap, [categorical_nan_fill_strategy |-> "n/a"]}

PrepareInit ==
    /\ tpConfig \in PrepareConfigs
    /\ telemetry_data \in RawFrames
    /\ df = telemetry_data
    /\ prepared = 0
    /\ tpCall = NoCall
    /\ RcaIdle /\ RecIdle /\ TrainerIdle /\ ClustersIdle

PrepareData ==
    /\ df' \in prepare_data(df, tpConfig)
    /\ prepared' = Min2(prepared + 1, 2)
    /\ UNCHANGED <<tpConfig, telemetry_data, tpCall, rcaVars, recVars, mtVars, paVars>>

\* _handle_missing_values called on the raw batch, which it fills in place
HandleMissingValues ==
    /\ tpCall = NoCall
    /\ prepared = 0
    /\ df' = handle_missing_values(df, tpConfig)
    /\ tpCall' = [op |-> "_handle_missing_values"]
    /\ UNCHANGED <<tpConfig, telemetry_data, prepared, rcaVars, recVars, mtVars, paVars>>

PrepareNext == PrepareData \/ HandleMissingValues

SpecPrepare == PrepareInit /\ [][PrepareNext]_vars

\* a clean batch: no missing value, no duplicate row, ascending timestamps
CleanBatch(frame) ==
    /\ \A i \in DOMAIN frame.rows : \A c \in Range(frame.cols) : frame.rows[i][c].k # "nan"
    /\ \A i, j \in DOMAIN frame.rows : i # j => frame.rows[i] # frame.rows[j]
    /\ HasCol(frame, "timestamp") =>
          \A i, j \in DOMAIN frame.rows :
              i < j => frame.rows[i]["timestamp"].v <= frame.rows[j]["timestamp"].v

\* C8: normalising an already-clean batch, once or twice, returns the same
\* rows in the same order with the same values.
C8_CleanBatchUnchanged ==
    (CleanBatch(telemetry_data) /\ prepared >= 1) =>
        /\ df.cols = telemetry_data.cols
        /\ df.rows = telemetry_data.rows

\* _handle_missing_values has returned and nothing else has touched the batch
Filled == tpCall.op = "_handle_missing_values" /\ prepared = 0

Missing(x) == x.k = "nan" \/ x.k = "none"

\* the columns of the raw batch by what they hold
NumericColumn(c) ==
    \A i \in DOMAIN telemetry_data.rows : telemetry_data.rows[i][c].k \in {"num", "nan"}

CategoricalColumn(c) ==
    \A i \in DOMAIN telemetry_data.rows :
        telemetry_data.rows[i][c].k \in {"text", "str", "none"}

BooleanColumn(c) ==
    /\ \A i \in DOMAIN telemetry_data.rows : telemetry_data.rows[i][c].k \in {"bool", "none"}
    /\ \E i \in DOMAIN telemetry_data.rows : telemetry_data.rows[i][c].k = "bool"

ConfiguredStrategy ==
    IF "numerical_nan_fill_strategy" \in DOMAIN tpConfig
    THEN tpConfig["numerical_nan_fill_strategy"] ELSE "mean"

ConfiguredSentinel ==
    IF "categorical_nan_fill_strategy" \in DOMAIN tpConfig
    THEN tpConfig["categorical_nan_fill_strategy"] ELSE "unknown"

\* the value a gap of numeric column c of the raw batch is to be filled with
ExpectedNumericFill(c) ==
    LET present == Vals(Column(telemetry_data, c))
    IN IF ConfiguredStrategy = "zero" \/ present = <<>> THEN 0
       ELSE IF ConfiguredStrategy = "median" THEN SeriesMedian(Column(telemetry_data, c))
       ELSE SumSeq(present) \div Len(present)

\* C21: after _handle_missing_values no numeric or categorical column holds a
\* missing value: a numeric gap holds the column's mean (default), median or
\* 0 as numerical_nan_fill_strategy says, and 0 when every value of the column
\* is missing; a categorical gap holds the configured sentinel (default
\* "unknown"); a value that was present is unchanged.
C21_GapsFilled ==
    Filled =>
        /\ df.cols = telemetry_data.cols
        /\ DOMAIN df.rows = DOMAIN telemetry_data.rows
        /\ \A c \in Range(telemetry_data.cols) : \A i \in DOMAIN telemetry_data.rows :
              LET old == telemetry_data.rows[i][c]
                  new == df.rows[i][c]
              IN (c # "timestamp" /\ (NumericColumn(c) \/ CategoricalColumn(c))) =>
                    /\ ~Missing(new)
                    /\ ~Missing(old) => new = old
                    /\ (Missing(old) /\ NumericColumn(c)) =>
                           new = [k |-> "num", v |-> ExpectedNumericFill(c)]
                    /\ (Missing(old) /\ ~NumericColumn(c)) =>
                           new = [k |-> "text", s |-> ConfiguredSentinel]

\* under a configured sentinel, a gap next to the value 12 was filled with 12
\* and a categorical gap with the sentinel
C21_Witness ==
    /\ Filled
    /\ tpConfig = [categorical_nan_fill_strategy |-> "n/a"]
    /\ df.cols = <<"cpu_usage", "categorical_feat">>
    /\ \E i, j \in DOMAIN df.rows :
          /\ telemetry_data.rows[i]["cpu_usage"] = NaNV
          /\ telemetry_data.rows[j]["cpu_usage"] = NumV(12)
          /\ df.rows[i]["cpu_usage"] = NumV(12)
          /\ telemetry_data.rows[i]["categorical_feat"] = None
          /\ telemetry_data.rows[j]["categorical_feat"] = TextV("A")
          /\ df.rows[i]["categorical_feat"] = TextV("n/a")
          /\ df.rows[j]["categorical_feat"] = TextV("A")

\* a numeric column without any value was filled with 0 under the mean
C21_AllMissingFilledWithZero ==
    /\ Filled
    /\ tpConfig = EmptyMap
    /\ df.cols = <<"cpu_usage">>
    /\ Len(df.rows) = 2
    /\ \A i \in DOMAIN df.rows :
          /\ telemetry_data.rows[i]["cpu_usage"] = NaNV
          /\ df.rows[i]["cpu_usage"] = NumV(0)

\* the median of 12, 24 and 24 filled a gap
C21_MedianFilled ==
    /\ Filled
    /\ ConfiguredStrategy = "median"
    /\ df.cols = <<"cpu_usage">>
    /\ \E i \in DOMAIN df.rows :
          /\ telemetry_data.rows[i]["cpu_usage"] = NaNV
          /\ df.rows[i]["cpu_usage"] = NumV(18)

\* C22: after normalisation every missing value of a boolean column has been
\* replaced by false.
C22_MissingBooleanBecomesFalse ==
    Filled =>
        \A c \in Range(telemetry_data.cols) : \A i \in DOMAIN telemetry_data.rows :
            (BooleanColumn(c) /\ Missing(telemetry_data.rows[i][c])) =>
                df.rows[i][c] = [k |-> "bool", t |-> FALSE]

\* what the code does: a boolean column with a gap is an object column, and
\* its gaps get the categorical sentinel
C22_MissingBooleanBecomesSentinel ==
    Filled =>
        \A c \in Range(telemetry_data.cols) : \A i \in DOMAIN telemetry_data.rows :
            (BooleanColumn(c) /\ Missing(telemetry_data.rows[i][c])) =>
                df.rows[i][c] = [k |-> "text", s |-> ConfiguredSentinel]

\* the column True, None came back as True, "unknown"
C22_SentinelInBooleanColumn ==
    /\ Filled
    /\ df.cols = <<"bool_feat">>
    /\ Len(df.rows) = 2
    /\ telemetry_data.rows[1]["bool_feat"] = BoolV(TRUE)
    /\ telemetry_data.rows[2]["bool_feat"] = None
    /\ df.rows[2]["bool_feat"] = TextV("unknown")

\* row r of the normalised batch is row i of the raw batch with its gaps filled
FilledRowOf(r, i) ==
    \A c \in Range(telemetry_data.cols) :
        /\ ~Missing(df.rows[r][c])
        /\ ~Missing(telemetry_data.rows[i][c]) => df.rows[r][c] = telemetry_data.rows[i][c]

\* C23: the batch returned by _prepare_data holds no two identical rows; with
\* a timestamp column its rows are in non-decreasing timestamp order; every
\* row of it is a row of the input with its missing values filled.
C23_DistinctSortedRows ==
    prepared >= 1 =>
        /\ df.cols = telemetry_data.cols
        /\ \A r, q \in DOMAIN df.rows : r # q => df.rows[r] # df.rows[q]
        /\ "timestamp" \in Range(df.cols) =>
              \A r, q \in DOMAIN df.rows :
                  r < q => df.rows[r]["timestamp"].v <= df.rows[q]["timestamp"].v
        /\ \A r \in DOMAIN df.rows : \E i \in DOMAIN telemetry_data.rows : FilledRowOf(r, i)

\* three raw rows in descending timestamp order, two of which became equal
\* once the gap was filled, came back as two rows in ascending order
C23_Witness ==
    /\ prepared = 1
    /\ tpCall = NoCall
    /\ df.cols = <<"timestamp", "cpu_usage">>
    /\ Len(telemetry_data.rows) = 3
    /\ Len(df.rows) = 2
    /\ \A i, j \in DOMAIN telemetry_data.rows : i # j =>
           telemetry_data.rows[i] # telemetry_data.rows[j]
    /\ telemetry_data.rows[1]["timestamp"].v > telemetry_data.rows[3]["timestamp"].v
    /\ \E i \in DOMAIN telemetry_data.rows : telemetry_data.rows[i]["cpu_usage"] = NaNV
    /\ df.rows[1]["timestamp"].v < df.rows[2]["timestamp"].v

(***************************************************************************)
(* Exact arithmetic for the statistics: a float is a reduced fraction       *)
(* [n, d] with d > 0, the square root of one, or infinity                   *)
(***************************************************************************)
RECURSIVE GCD(_, _)
GCD(a, b) == IF b = 0 THEN a ELSE GCD(b, a % b)

Rat(n, d) ==
    LET g == GCD(Abs(n), Abs(d))
        sgn == IF d < 0 THEN -1 ELSE 1
    IN [n |-> (sgn * n) \div g, d |-> (sgn * d) \div g]

Zero == [n |-> 0, d |-> 1]

Inf == [n |-> 1, d |-> 0]

NaN == [n |-> 0, d |-> 0]

\* not np.isnan(v) and not np.isinf(v)
IsFinite(v) == v.d # 0

RatLess(a, b) == a.n * b.d < b.n * a.d

RatAdd(a, b) == Rat(a.n * b.d + b.n * a.d, a.d * b.d)

RatDiv(a, b) == Rat(a.n * b.d, a.d * b.n)

\* the sums a regression or a correlation is made of, over paired values
Sxx(xs) == Len(xs) * SumSeq([i \in DOMAIN xs |-> xs[i] * xs[i]]) - SumSeq(xs) * SumSeq(xs)

Sxy(xs, ys) == Len(xs) * SumSeq([i \in DOMAIN xs |-> xs[i] * ys[i]]) - SumSeq(xs) * SumSeq(ys)

\* squared critical values of Student's t at the two-sided level 0.05, in
\* hundredths, by degrees of freedom
TCritSq(dof) ==
    CASE dof = 1 -> 16145
      [] dof = 2 -> 1851
      [] dof = 3 -> 1013
      [] dof = 4 -> 771
      [] OTHER -> 661

\* p < 0.05 for the slope: t^2 = dof * r^2 / (1 - r^2) exceeds the critical
\* value, with r^2 = explained / (explained + residual)
SlopeSignificant(explained, residual, dof) ==
    LET g == GCD(explained, residual)
    IN 100 * (explained \div g) * dof > TCritSq(dof) * (residual \div g)

\* the same at the two-sided level 0.5
TCritSqHalf(dof) ==
    CASE dof = 1 -> 100
      [] dof = 2 -> 67
      [] dof = 3 -> 59
      [] dof = 4 -> 55
      [] OTHER -> 53

\* p < 0.5 for the slope
SlopeBelowHalf(explained, residual, dof) ==
    LET g == GCD(explained, residual)
    IN 100 * (explained \div g) * dof > TCritSqHalf(dof) * (residual \div g)

trend_slope_threshold == Rat(5, 100)

trend_p_value_threshold == Rat(5, 100)

\* mutant: the configured slope threshold is not read
DefaultSlopeThreshold(config) == trend_slope_threshold

\* line 398
SlopeThreshold(config) == Get(config, "trend_slope_threshold", trend_slope_threshold)

\* line 402
PValueThreshold(config) == Get(config, "trend_p_value_threshold", trend_p_value_threshold)

\* line 403: p_value < p_value_threshold, for a threshold of 0.05 or 0.5
PValueBelow(p_value, p_value_threshold) ==
    CASE p_value = "<0.05" -> TRUE
      [] p_value = "[0.05,0.5)" -> p_value_threshold = Rat(1, 2)
      [] OTHER -> FALSE

\* lines 396-400
Direction(slope, slope_threshold) ==
    IF RatLess(slope_threshold, slope) THEN "increasing"
    ELSE IF RatLess(slope, Rat(0 - slope_threshold.n, slope_threshold.d))
         THEN "decreasing" ELSE "stable"

NeutralTrend ==
    [slope |-> Zero, intercept |-> Zero, r_value |-> Zero, p_value |-> "1.0",
     stderr |-> "0.0", significant |-> FALSE, direction |-> "stable"]

\* scipy.stats.linregress(xs, ys) followed by the direction and significance
\* tests of lines 396-413; r_value is reported by its sign and square, p_value
\* by the interval it lies in (below 0.05, from 0.05 to below 0.5, from 0.5
\* on, or exactly 1.0), stderr by its being zero.
\* linregress raises when all x are identical; the caller then returns the
\* neutral record.
TrendWith(xs, ys, slope_threshold, p_value_threshold) ==
    LET n == Len(xs)
        sxx == Sxx(xs)
        syy == Sxx(ys)
        sxy == Sxy(xs, ys)
        slope == Rat(sxy, sxx)
        intercept == Rat(SumSeq(ys) * sxx - sxy * SumSeq(xs), n * sxx)
        \* two points: linregress reports p = 0 unless the two y are equal
        below == /\ syy > 0
                 /\ \/ n = 2
                    \/ SlopeSignificant(sxy * sxy, sxx * syy - sxy * sxy, n - 2)
        p_value == IF syy = 0 \/ sxy = 0 THEN "1.0"
                   ELSE IF below THEN "<0.05"
                   ELSE IF SlopeBelowHalf(sxy * sxy, sxx * syy - sxy * sxy, n - 2)
                        THEN "[0.05,0.5)" ELSE ">=0.5"
    IN IF sxx = 0 THEN NeutralTrend
       ELSE [slope |-> slope,
             intercept |-> intercept,
             r_value |-> IF syy = 0 THEN Zero
                         ELSE [n |-> (IF sxy < 0 THEN -1 ELSE 1) * Rat(sxy * sxy, sxx * syy).n,
                               d |-> Rat(sxy * sxy, sxx * syy).d],
             p_value |-> p_value,
             stderr |-> IF sxx * syy = sxy * sxy THEN "0.0" ELSE ">0",
             significant |-> PValueBelow(p_value, p_value_threshold),
             direction |-> Direction(slope, slope_threshold)]

\* the same under the default thresholds
TrendOf(xs, ys) == TrendWith(xs, ys, trend_slope_threshold, trend_p_value_threshold)

TooFewPoints3(n) == n < 3

\* mutant: two points are taken as enough for a regression
TooFewPoints2(n) == n < 2

TooFewPoints(n) == TooFewPoints3(n)

\* the rows in ascending timestamp order; the statistics below do not depend
\* on the order of rows with equal timestamps, which are kept as they come
RECURSIVE InsertByTimestamp(_, _)
InsertByTimestamp(sorted, row) ==
    IF sorted = <<>> THEN <<row>>
    ELSE IF row["timestamp"].v < Head(sorted)["timestamp"].v THEN <<row>> \o sorted
         ELSE <<Head(sorted)>> \o InsertByTimestamp(Tail(sorted), row)

RECURSIVE SortByTimestamp(_)
SortByTimestamp(rows) ==
    IF rows = <<>> THEN <<>>
    ELSE InsertByTimestamp(SortByTimestamp(SubSeq(rows, 1, Len(rows) - 1)), rows[Len(rows)])

ByTimestamp(frame) == SortByTimestamp(frame.rows)

\* lines 359-365: the time axis in seconds, one entry per row
TimeNumeric(frame) ==
    IF HasCol(frame, "timestamp")
    THEN LET r == ByTimestamp(frame)
         IN [i \in DOMAIN r |-> r[i]["timestamp"].v - r[1]["timestamp"].v]
    ELSE [i \in DOMAIN frame.rows |-> i - 1]

SeriesData(frame, c) ==
    IF HasCol(frame, "timestamp")
    THEN LET r == ByTimestamp(frame) IN [i \in DOMAIN r |-> r[i][c]]
    ELSE Column(frame, c)

\* lines 367-370
TrendFeatureList(frame, config) ==
    IF Get(config, "trend_features", <<>>) = <<>> THEN NumericCols(frame)
    ELSE config["trend_features"]

\* lines 380-417 for one column
PeriodTrend(frame, c, config) ==
    LET series == SeriesData(frame, c)
        time_numeric == TimeNumeric(frame)
        valid == {i \in DOMAIN series : series[i].k = "num"}
        idx == SelectSeq([i \in DOMAIN series |-> i], LAMBDA i : i \in valid)
        xs == [i \in DOMAIN idx |-> time_numeric[idx[i]]]
        ys == [i \in DOMAIN idx |-> series[idx[i]].v]
    IN IF TooFewPoints(Cardinality(valid)) THEN NeutralTrend
       ELSE TrendWith(xs, ys, SlopeThreshold(config), PValueThreshold(config))

\* TelemetryProcessor._calculate_period_trends
calculate_period_trends(frame, config) ==
    IF frame.rows = <<>> THEN EmptyMap
    ELSE LET cols == {c \in Range(TrendFeatureList(frame, config)) :
                         HasCol(frame, c) /\ IsNumericCol(frame, c)}
         IN [c \in cols |-> PeriodTrend(frame, c, config)]

(***************************************************************************)
(* Trend analysis as a state machine: _calculate_period_trends on a window  *)
(***************************************************************************)
TrendRows ==
    [timestamp : {NumV(0), NumV(1), NumV(2)},
     cpu_usage : {NaNV, NumV(0), NumV(3)},
     status : {StrV}]

TrendFrames ==
    {Frame(cols, [i \in DOMAIN rows |-> Project(rows[i], cols)], "datetime64[ns]") :
        cols \in {<<"timestamp", "cpu_usage", "status">>, <<"cpu_usage", "status">>},
        rows \in SeqsUpTo(TrendRows, MaxRows)}

TrendConfigs ==
    {EmptyMap} \cup [trend_features : {<<>>, <<"cpu_usage">>,
                                       <<"status", "latency", "cpu_usage">>}]
    \cup {[trend_p_value_threshold |-> Rat(1, 2)],
          [trend_slope_threshold |-> Rat(2, 1)],
          [trend_features |-> <<"cpu_usage">>, trend_p_value_threshold |-> Rat(1, 2),
           trend_slope_threshold |-> Rat(2, 1)]}

TrendInit ==
    /\ tpConfig \in TrendConfigs
    /\ telemetry_data \in TrendFrames
    /\ df = telemetry_data
    /\ prepared = 0
    /\ tpCall = NoCall
    /\ RcaIdle /\ RecIdle /\ TrainerIdle /\ ClustersIdle

CalculatePeriodTrends ==
    /\ tpCall = NoCall
    /\ tpCall' = [op |-> "_calculate_period_trends",
                  out |-> calculate_period_trends(df, tpConfig)]
    /\ UNCHANGED <<tpConfig, telemetry_data, df, prepared, rcaVars, recVars, mtVars, paVars>>

TrendNext == CalculatePeriodTrends

SpecTrend == TrendInit /\ [][TrendNext]_vars

TrendsDone == tpCall # NoCall /\ tpCall.op = "_calculate_period_trends"

ValidPoints(c) == Cardinality({i \in DOMAIN df.rows : df.rows[i][c].k = "num"})

\* the metrics a non-empty window is asked about: the configured ones, or
\* every numeric column when none is configured
AnalysedMetrics ==
    {c \in {"cpu_usage", "status", "latency"} :
        /\ df.rows # <<>>
        /\ HasCol(df, c)
        /\ \A i \in DOMAIN df.rows : df.rows[i][c].k \in {"num", "nan"}
        /\ Get(tpConfig, "trend_features", <<>>) # <<>> => c \in Range(tpConfig["trend_features"])}

\* C7: a metric with fewer than three valid points in the analysed window is
\* reported with the neutral trend record: slope 0, p-value 1, not
\* significant, direction stable.
C7_NeutralTrendBelowThreePoints ==
    TrendsDone =>
        /\ DOMAIN tpCall.out = AnalysedMetrics
        /\ \A c \in AnalysedMetrics :
              ValidPoints(c) < 3 =>
                  /\ tpCall.out[c].slope = Zero
                  /\ tpCall.out[c].p_value = "1.0"
                  /\ tpCall.out[c].significant = FALSE
                  /\ tpCall.out[c].direction = "stable"
                  /\ tpCall.out[c].intercept = Zero
                  /\ tpCall.out[c].r_value = Zero
                  /\ tpCall.out[c].stderr = "0.0"

\* a window of three rows of which two have a cpu_usage value, with distinct
\* values at distinct times, has been analysed
C7_Witness ==
    /\ TrendsDone
    /\ "cpu_usage" \in AnalysedMetrics
    /\ Len(df.rows) = 3
    /\ ValidPoints("cpu_usage") = 2
    /\ HasCol(df, "timestamp")
    /\ \E i, j \in DOMAIN df.rows :
          /\ df.rows[i]["cpu_usage"].k = "num" /\ df.rows[j]["cpu_usage"].k = "num"
          /\ df.rows[i]["cpu_usage"].v < df.rows[j]["cpu_usage"].v
          /\ df.rows[i]["timestamp"].v < df.rows[j]["timestamp"].v
    /\ tpCall.out["cpu_usage"] = NeutralTrend

\* three valid points on a rising line give a significant increasing trend
TrendRegressionReached ==
    /\ TrendsDone
    /\ "cpu_usage" \in DOMAIN tpCall.out
    /\ tpCall.out["cpu_usage"].direction = "increasing"
    /\ tpCall.out["cpu_usage"].significant

\* the thresholds the window was analysed under: the configured ones, 0.05
\* each when the configuration names none
ConfiguredPValueThreshold ==
    IF "trend_p_value_threshold" \in DOMAIN tpConfig
    THEN tpConfig["trend_p_value_threshold"] ELSE [n |-> 1, d |-> 20]

ConfiguredSlopeThreshold ==
    IF "trend_slope_threshold" \in DOMAIN tpConfig
    THEN tpConfig["trend_slope_threshold"] ELSE [n |-> 1, d |-> 20]

\* the reported p-value lies below the threshold
ReportedPBelow(p_value, threshold) ==
    \/ p_value = "<0.05" /\ threshold.n * 20 >= threshold.d
    \/ p_value = "[0.05,0.5)" /\ threshold.n * 2 >= threshold.d

\* C20: in every trend record, significant is true if and only if p_value is
\* below trend_p_value_threshold (default 0.05); direction is "increasing" if
\* and only if slope is above trend_slope_threshold, "decreasing" if and only
\* if slope is below its negative, and "stable" otherwise, whatever the
\* significance.
C20_SignificanceAndDirection ==
    TrendsDone =>
        \A c \in DOMAIN tpCall.out :
            LET t == tpCall.out[c]
                thr == ConfiguredSlopeThreshold
                above == t.slope.n * thr.d > thr.n * t.slope.d
                under == t.slope.n * thr.d < (0 - thr.n) * t.slope.d
            IN /\ t.significant <=> ReportedPBelow(t.p_value, ConfiguredPValueThreshold)
               /\ (t.direction = "increasing") <=> above
               /\ (t.direction = "decreasing") <=> under
               /\ (t.direction = "stable") <=> (~above /\ ~under)

\* under a p-value threshold of 0.5 and a slope threshold of 2, a slope of
\* 3/2 with a p-value between 0.05 and 0.5 is significant and stable
C20_Witness ==
    /\ TrendsDone
    /\ ConfiguredPValueThreshold = Rat(1, 2)
    /\ ConfiguredSlopeThreshold = Rat(2, 1)
    /\ "cpu_usage" \in DOMAIN tpCall.out
    /\ tpCall.out["cpu_usage"].slope = Rat(3, 2)
    /\ tpCall.out["cpu_usage"].p_value = "[0.05,0.5)"
    /\ tpCall.out["cpu_usage"].significant
    /\ tpCall.out["cpu_usage"].direction = "stable"

\* under the default thresholds the same slope is increasing and not
\* significant
C20_IncreasingNotSignificant ==
    /\ TrendsDone
    /\ tpConfig = EmptyMap
    /\ "cpu_usage" \in DOMAIN tpCall.out
    /\ tpCall.out["cpu_usage"].slope = Rat(3, 2)
    /\ tpCall.out["cpu_usage"].direction = "increasing"
    /\ ~tpCall.out["cpu_usage"].significant

\* a falling series is reported as decreasing
C20_DecreasingReached ==
    /\ TrendsDone
    /\ "cpu_usage" \in DOMAIN tpCall.out
    /\ tpCall.out["cpu_usage"].direction = "decreasing"

(***************************************************************************)
(* Correlation detection                                                    *)
(***************************************************************************)
correlation_threshold == 800

strong_correlation_threshold == 900

\* the index pairs visited by the nested loops of lines 753-754, in order
RECURSIVE IndexPairs(_, _, _)
IndexPairs(n, i, j) ==
    IF i > n THEN <<>>
    ELSE IF j > n THEN IndexPairs(n, i + 1, i + 2)
         ELSE <<(<<i, j>>)>> \o IndexPairs(n, i, j + 1)

\* DataFrame.corr(method='pearson') for two columns without missing values:
\* the numerator and the squared denominator of the coefficient
CorrParts(frame, c1, c2) ==
    LET xs == [i \in DOMAIN frame.rows |-> frame.rows[i][c1].v]
        ys == [i \in DOMAIN frame.rows |-> frame.rows[i][c2].v]
    IN [sxy |-> Sxy(xs, ys), den2 |-> Sxx(xs) * Sxx(ys)]

\* the whole part of f * f * r^2, r being the coefficient; den2 > 0
ScaledSquare(parts, f) ==
    LET g == GCD(parts.sxy * parts.sxy, parts.den2)
        num == (parts.sxy * parts.sxy) \div g
        den == parts.den2 \div g
    IN f * ((f * num) \div den) + (f * ((f * num) % den)) \div den

\* pd.notna(corr_value) and abs(corr_value) >= t, with t in thousandths
CorrAtLeast(parts, t) ==
    /\ parts.den2 > 0
    /\ ScaledSquare(parts, 1000) >= t * t

\* round(corr_value, 3), in thousandths
RoundedCoefficient(parts) ==
    LET q == ScaledSquare(parts, 2000)
        k == CHOOSE k \in 0..1000 :
                 /\ (k = 0 \/ (2 * k - 1) * (2 * k - 1) <= q)
                 /\ (k = 1000 \/ q < (2 * k + 1) * (2 * k + 1))
    IN IF parts.sxy < 0 THEN 0 - k ELSE k

\* lines 734-743: the columns of numerical_df
CorrelationColumns(frame, config) ==
    IF Get(config, "correlation_features", <<>>) = <<>> THEN NumericCols(frame)
    ELSE SelectSeq(config["correlation_features"],
                   LAMBDA c : HasCol(frame, c) /\ IsNumericCol(frame, c))

\* mutant: the inner loop starts at the first column instead of after the
\* outer one
AllOrderedPairs(n) ==
    SelectSeq(IndexPairs(n, 1, 2) \o [k \in DOMAIN IndexPairs(n, 1, 2) |->
                  <<IndexPairs(n, 1, 2)[k][2], IndexPairs(n, 1, 2)[k][1]>>],
              LAMBDA q : TRUE)

VisitedPairs(n) == IndexPairs(n, 1, 2)

\* TelemetryProcessor._detect_correlations
detect_correlations(frame, config) ==
    LET cols == CorrelationColumns(frame, config)
        visited == VisitedPairs(Len(cols))
        significant == SelectSeq(visited, LAMBDA q :
                           CorrAtLeast(CorrParts(frame, cols[q[1]], cols[q[2]]),
                                       correlation_threshold))
    IN IF frame.rows = <<>> \/ Len(cols) < 2 THEN [significant_pairs |-> <<>>]
       ELSE [significant_pairs |->
                [k \in DOMAIN significant |->
                    LET parts == CorrParts(frame, cols[significant[k][1]],
                                           cols[significant[k][2]])
                    IN [pair |-> <<cols[significant[k][1]], cols[significant[k][2]]>>,
                        correlation_coefficient |-> RoundedCoefficient(parts),
                        strength |-> IF CorrAtLeast(parts, strong_correlation_threshold)
                                     THEN "strong" ELSE "moderate"]]]

(***************************************************************************)
(* Correlation detection as a state machine                                 *)
(***************************************************************************)
CorrRows ==
    [cpu_usage : {NumV(0), NumV(1)}, memory_usage : {NumV(0), NumV(1), NumV(3)},
     error_count : {NumV(0), NumV(2)}, status : {StrV}]

CorrFrames ==
    {Frame(<<"cpu_usage", "memory_usage", "error_count", "status">>, rows, "object") :
        rows \in SeqsUpTo(CorrRows, MaxRows)}

CorrConfigs ==
    {EmptyMap} \cup
    [correlation_features :
        {<<"cpu_usage", "memory_usage">>,
         <<"memory_usage", "error_count", "cpu_usage">>,
         <<"cpu_usage", "memory_usage", "cpu_usage">>,
         <<"status", "latency", "error_count">>}]

CorrInit ==
    /\ tpConfig \in CorrConfigs
    /\ telemetry_data \in CorrFrames
    /\ df = telemetry_data
    /\ prepared = 0
    /\ tpCall = NoCall
    /\ RcaIdle /\ RecIdle /\ TrainerIdle /\ ClustersIdle

DetectCorrelations ==
    /\ tpCall = NoCall
    /\ tpCall' = [op |-> "_detect_correlations", out |-> detect_correlations(df, tpConfig)]
    /\ UNCHANGED <<tpConfig, telemetry_data, df, prepared, rcaVars, recVars, mtVars, paVars>>

CorrNext == DetectCorrelations

SpecCorr == CorrInit /\ [][CorrNext]_vars

CorrelationsDone == tpCall # NoCall /\ tpCall.op = "_detect_correlations"

PairSet(entry) == {entry.pair[1], entry.pair[2]}

\* C9: in significant_pairs each unordered pair of metrics appears at most
\* once: (A,B) and (B,A) never both appear and no pair is reported twice.
C9_EachPairOnce ==
    CorrelationsDone =>
        LET sp == tpCall.out.significant_pairs
        IN \A k, l \in DOMAIN sp : k # l => PairSet(sp[k]) # PairSet(sp[l])

\* the same, for configurations that name no feature twice
C9_EachPairOnceDistinctNames ==
    (/\ CorrelationsDone
     /\ \A i, j \in DOMAIN Get(tpConfig, "correlation_features", <<>>) :
            i # j => tpConfig["correlation_features"][i] # tpConfig["correlation_features"][j]) =>
        LET sp == tpCall.out.significant_pairs
        IN /\ \A k, l \in DOMAIN sp : k # l => PairSet(sp[k]) # PairSet(sp[l])
           /\ \A k \in DOMAIN sp : sp[k].pair[1] # sp[k].pair[2]

\* three columns, all three pairs reported
CorrThreePairsReached ==
    /\ CorrelationsDone
    /\ Len(tpCall.out.significant_pairs) = 3
    /\ Get(tpConfig, "correlation_features", <<>>) = <<"memory_usage", "error_count", "cpu_usage">>

(***************************************************************************)
(* Feature aggregation                                                      *)
(***************************************************************************)
MaxFeatureRows == 2

\* _col(*names): the first of the names that is a column, "" for None
FirstCol(frame, names) ==
    IF \E i \in DOMAIN names : HasCol(frame, names[i])
    THEN names[CHOOSE i \in DOMAIN names :
                   /\ HasCol(frame, names[i])
                   /\ \A j \in 1..(i - 1) : ~HasCol(frame, names[j])]
    ELSE ""

CpuCol(frame) == FirstCol(frame, <<"cpu_usage", "cpu_usage_avg">>)

MemCol(frame) == FirstCol(frame, <<"memory_usage", "memory_usage_avg">>)

ErrCol(frame) == FirstCol(frame, <<"error_count", "error_count_sum">>)

ColVals(frame, c) == [i \in DOMAIN frame.rows |-> frame.rows[i][c].v]

ColSum(frame, c) == SumSeq(ColVals(frame, c))

\* Series.mean() of a column without missing values
ColMean(frame, c) == Rat(ColSum(frame, c), Len(frame.rows))

ColMax(frame, c) == Rat(SetMax(Range(ColVals(frame, c))), 1)

\* the square root of a fraction
SqrtOf(r) == [n |-> r.n, d |-> r.d, root |-> 2]

\* Series.std(): the sample standard deviation
ColStd(frame, c) ==
    LET n == Len(frame.rows)
    IN SqrtOf(Rat(Sxx(ColVals(frame, c)), n * (n - 1)))

\* TelemetryProcessor._calculate_trend against time_axis = 0, 1, ..., n-1
calculate_trend(series) ==
    IF Len(series) < 2 THEN NeutralTrend
    ELSE TrendOf([i \in DOMAIN series |-> i - 1], series)

\* lines 874-889
ErrorRate(frame) ==
    IF HasCol(frame, "request_count")
    THEN IF ColSum(frame, "request_count") <= 0 THEN Zero
         ELSE IF ErrCol(frame) # ""
              THEN Rat(ColSum(frame, ErrCol(frame)), ColSum(frame, "request_count"))
              ELSE IF HasCol(frame, "error_rate") THEN ColMean(frame, "error_rate")
                   ELSE Zero
    ELSE IF HasCol(frame, "error_rate") THEN ColMean(frame, "error_rate")
         ELSE Zero

MeanOrZero(frame, c) == IF c # "" THEN ColMean(frame, c) ELSE Zero

\* lines 891-905
RatioFeatures(frame) ==
    LET mean_cpu == MeanOrZero(frame, CpuCol(frame))
        mean_memory == MeanOrZero(frame, MemCol(frame))
    IN [cpu_to_memory_ratio |->
            IF RatLess(Zero, mean_memory) THEN RatDiv(mean_cpu, mean_memory) ELSE Zero,
        resource_utilization_ratio |->
            IF CpuCol(frame) # "" \/ MemCol(frame) # ""
            THEN RatDiv(RatAdd(mean_cpu, mean_memory), Rat(2, 1)) ELSE Zero,
        cpu_usage_volatility |->
            IF CpuCol(frame) # "" /\ Len(frame.rows) >= 2
            THEN ColStd(frame, CpuCol(frame)) ELSE Zero]

\* lines 909-924: the outcomes of the slope computation.  When every row has
\* the same timestamp np.polyfit divides the time column by its zero norm and
\* hands NaN to lstsq, which raises or returns NaN,
\* depending on the LAPACK build.
MemorySlopeOutcomes(frame) ==
    IF MemCol(frame) # "" /\ HasCol(frame, "timestamp") /\ Len(frame.rows) > 1
    THEN LET xs == TimeNumeric(frame)
             ys == [i \in DOMAIN frame.rows |-> ByTimestamp(frame)[i][MemCol(frame)].v]
         IN IF Sxx(xs) = 0 THEN {[raised |-> TRUE, slope |-> NaN],
                                  [raised |-> FALSE, slope |-> NaN]}
            ELSE {[raised |-> FALSE, slope |-> Rat(Sxy(xs, ys), Sxx(xs))]}
    ELSE {[raised |-> FALSE, slope |-> Zero]}

\* lines 928-951
RequestsPerMinute(frame) ==
    IF HasCol(frame, "request_count") /\ HasCol(frame, "timestamp") /\ Len(frame.rows) > 1
    THEN LET ts == ColVals(frame, "timestamp")
             duration_seconds == SetMax(Range(ts)) - (0 - SetMax({0 - t : t \in Range(ts)}))
         IN IF duration_seconds > 0
            THEN Rat(ColSum(frame, "request_count") * 60, duration_seconds)
            ELSE IF ColSum(frame, "request_count") > 0 THEN Inf ELSE Zero
    ELSE Zero

\* TelemetryProcessor._calculate_derived_features: the dictionaries it can
\* return; an exception inside it yields the empty dictionary (line 957)
calculate_derived_features(frame) ==
    {IF fit.raised THEN EmptyMap
     ELSE ("error_rate" :> ErrorRate(frame))
          @@ RatioFeatures(frame)
          @@ ("memory_usage_trend_slope" :> fit.slope)
          @@ ("requests_per_minute" :> RequestsPerMinute(frame)) :
        fit \in MemorySlopeOutcomes(frame)}

\* lines 164-195: one group per metric whose column is present
FeatureGroups(frame) ==
    LET cpu == CpuCol(frame)
        mem == MemCol(frame)
        err == ErrCol(frame)
    IN (IF cpu # ""
        THEN "cpu" :> [average |-> ColMean(frame, cpu), max |-> ColMax(frame, cpu),
                       trend |-> calculate_trend(ColVals(frame, cpu))]
        ELSE EmptyMap)
       @@ (IF mem # ""
           THEN "memory" :> [average |-> ColMean(frame, mem), max |-> ColMax(frame, mem),
                             trend |-> calculate_trend(ColVals(frame, mem))]
           ELSE EmptyMap)
       @@ (IF err # ""
           THEN "errors" :> [total |-> Rat(ColSum(frame, err), 1),
                             trend |-> calculate_trend(ColVals(frame, err))]
           ELSE EmptyMap)
       @@ (IF HasCol(frame, "network_latency")
           THEN "network" :> [average_latency |-> ColMean(frame, "network_latency"),
                              max_latency |-> ColMax(frame, "network_latency"),
                              trend |-> calculate_trend(ColVals(frame, "network_latency"))]
           ELSE EmptyMap)

\* mutant: a group of zeros is emitted for a metric whose column is absent
ZeroGroups(frame) ==
    FeatureGroups(frame)
    @@ [g \in {"cpu", "memory"} |->
           [average |-> Zero, max |-> Zero, trend |-> NeutralTrend]]
    @@ ("errors" :> [total |-> Zero, trend |-> NeutralTrend])
    @@ ("network" :> [average_latency |-> Zero, max_latency |-> Zero,
                      trend |-> NeutralTrend])

MetricGroups(frame) == FeatureGroups(frame)

\* TelemetryProcessor._extract_features: the dictionaries it can return
extract_features(frame) ==
    {MetricGroups(frame) @@ ("derived" :> d) : d \in calculate_derived_features(frame)}

(***************************************************************************)
(* Multi-metric anomaly rules                                               *)
(***************************************************************************)
PatternOperators == {">", "<", ">=", "<=", "==", "!="}

PatternCompare(v, operator, threshold) ==
    CASE operator = ">" -> v > threshold
      [] operator = "<" -> v < threshold
      [] operator = ">=" -> v >= threshold
      [] operator = "<=" -> v <= threshold
      [] operator = "==" -> v = threshold
      [] OTHER -> v # threshold

\* lines 813-819 on one cell: a text cell is unequal to a number
CellCompare(cell, operator, threshold) ==
    IF cell.k = "str" THEN operator = "!="
    ELSE PatternCompare(cell.v, operator, threshold)

\* lines 814-817: an ordering comparison of a text (object) column with a
\* number raises TypeError
ComparisonRaises(frame, metric, operator) ==
    /\ operator \in {">", "<", ">=", "<="}
    /\ \E r \in DOMAIN frame.rows : frame.rows[r][metric].k = "str"

\* line 805: metric and operator are non-empty and a threshold is given
CompleteCondition(cond) ==
    /\ "metric" \in DOMAIN cond /\ cond["metric"] # ""
    /\ "operator" \in DOMAIN cond /\ cond["operator"] # ""
    /\ "threshold" \in DOMAIN cond

\* lines 808-811: the rule cannot be met
NoRowMatches(mask) == [r \in DOMAIN mask |-> FALSE]

\* mutant: a condition on an absent metric ends the rule with the rows that
\* matched so far
KeepMatches(mask) == mask

MetricNotFound(mask) == NoRowMatches(mask)

\* lines 800-824: the rows that meet the conditions, from condition i on
RECURSIVE CombineConditions(_, _, _, _)
CombineConditions(conds, i, frame, mask) ==
    IF i > Len(conds) THEN mask
    ELSE LET cond == conds[i]
         IN IF ~CompleteCondition(cond) THEN CombineConditions(conds, i + 1, frame, mask)
            ELSE IF ~HasCol(frame, cond["metric"]) THEN MetricNotFound(mask)
                 ELSE IF cond["operator"] \notin PatternOperators
                      THEN CombineConditions(conds, i + 1, frame, mask)
                      ELSE CombineConditions(conds, i + 1, frame,
                               [r \in DOMAIN mask |->
                                   /\ mask[r]
                                   /\ CellCompare(frame.rows[r][cond["metric"]],
                                                  cond["operator"], cond["threshold"])])

\* lines 800-824: a comparison that is reached, from condition i on, raises
RECURSIVE ConditionsRaise(_, _, _)
ConditionsRaise(conds, i, frame) ==
    IF i > Len(conds) THEN FALSE
    ELSE LET cond == conds[i]
         IN IF ~CompleteCondition(cond) THEN ConditionsRaise(conds, i + 1, frame)
            ELSE IF ~HasCol(frame, cond["metric"]) THEN FALSE
                 ELSE \/ ComparisonRaises(frame, cond["metric"], cond["operator"])
                      \/ ConditionsRaise(conds, i + 1, frame)

RuleRaises(rule, frame) == ConditionsRaise(Get(rule, "conditions", <<>>), 1, frame)

RuleMask(rule, frame) ==
    CombineConditions(Get(rule, "conditions", <<>>), 1, frame,
                      [r \in DOMAIN frame.rows |-> TRUE])

RuleReported(rule, frame) ==
    /\ Get(rule, "conditions", <<>>) # <<>>
    /\ \E r \in DOMAIN frame.rows : RuleMask(rule, frame)[r]

\* lines 826-842: the entry of a reported rule
PatternEntry(rule, frame) ==
    LET mask == RuleMask(rule, frame)
        hits == SelectSeq([r \in DOMAIN frame.rows |-> r], LAMBDA r : mask[r])
        base == [description |-> Get(rule, "description",
                                     <<"Pattern", Get(rule, "name", "UnnamedRule"), "detected.">>),
                 severity |-> Get(rule, "severity", "medium"),
                 count |-> Len(hits)]
    IN IF HasCol(frame, "timestamp")
       THEN base @@ ("occurrences_timestamps" :>
                        [k \in DOMAIN hits |-> frame.rows[hits[k]]["timestamp"].v])
       ELSE base

\* TelemetryProcessor._detect_anomalous_patterns; a later rule of the same name
\* replaces an earlier one, and an exception in any rule returns {} (line 846)
detect_anomalous_patterns(frame, config) ==
    LET rs == Get(config, "multi_metric_anomaly_rules", <<>>)
        reported == {i \in DOMAIN rs : RuleReported(rs[i], frame)}
        names == {Get(rs[i], "name", "UnnamedRule") : i \in reported}
        last(nm) == CHOOSE i \in reported :
                        /\ Get(rs[i], "name", "UnnamedRule") = nm
                        /\ \A j \in reported :
                              Get(rs[j], "name", "UnnamedRule") = nm => j <= i
    IN IF frame.rows = <<>> THEN EmptyMap
       ELSE IF \E i \in DOMAIN rs : RuleRaises(rs[i], frame) THEN EmptyMap
       ELSE [nm \in names |-> PatternEntry(rs[last(nm)], frame)]

(***************************************************************************)
(* Feature aggregation and rule patterns as a state machine                 *)
(***************************************************************************)
FeatureRows ==
    [timestamp : {NumV(0), NumV(60)}, cpu_usage : {NumV(10), NumV(50)},
     memory_usage : {NumV(0), NumV(40)}, error_count : {NumV(2)},
     request_count : {NumV(0), NumV(4)}, network_latency : {NumV(5)},
     status : {StrV}]

AllFeatureColumns ==
    <<"timestamp", "cpu_usage", "memory_usage", "error_count", "request_count",
      "network_latency">>

\* every metric column present, or one of them absent, or all of them next
\* to a text column
FeatureColumnSets ==
    {AllFeatureColumns, Append(AllFeatureColumns, "status")} \cup
    {SelectSeq(AllFeatureColumns, LAMBDA c : c # gone) : gone \in Range(AllFeatureColumns)}

\* normalised frames: at least one row, no duplicate row, ascending timestamps
FeatureFrames ==
    {f \in {Frame(cols, [i \in DOMAIN rows |-> Project(rows[i], cols)], "datetime64[ns]") :
               cols \in FeatureColumnSets,
               rows \in SeqsUpTo(FeatureRows, MaxFeatureRows)} :
        /\ f.rows # <<>>
        /\ \A i, j \in DOMAIN f.rows : i < j =>
              /\ f.rows[i] # f.rows[j]
              /\ HasCol(f, "timestamp") => f.rows[i]["timestamp"].v <= f.rows[j]["timestamp"].v}

PatternRuleCatalogue ==
    [HighCpuAndMemory |->
        [name |-> "HighCpuAndMemory", severity |-> "high",
         conditions |-> <<[metric |-> "cpu_usage", operator |-> ">", threshold |-> 40],
                          [metric |-> "memory_usage", operator |-> ">=", threshold |-> 40]>>],
     ErrorsWithTraffic |->
        [name |-> "ErrorsWithTraffic",
         description |-> <<"errors", "under", "load">>,
         conditions |-> <<[metric |-> "error_count", operator |-> ">", threshold |-> 0],
                          [metric |-> "request_count", operator |-> "!=", threshold |-> 0]>>],
     HalfWritten |->
        [name |-> "HalfWritten",
         conditions |-> <<[metric |-> "memory_usage"],
                          [metric |-> "cpu_usage", operator |-> ">", threshold |-> 40]>>],
     OddOperator |->
        [name |-> "OddOperator",
         conditions |-> <<[metric |-> "cpu_usage", operator |-> "~", threshold |-> 5],
                          [metric |-> "request_count", operator |-> ">=", threshold |-> 4]>>],
     LatencyLast |->
        [name |-> "LatencyLast",
         conditions |-> <<[metric |-> "cpu_usage", operator |-> "<=", threshold |-> 50],
                          [metric |-> "network_latency", operator |-> "==", threshold |-> 5]>>],
     NoConditions |-> [name |-> "NoConditions", conditions |-> <<>>],
     AllSkipped |->
        [name |-> "AllSkipped",
         conditions |-> <<[metric |-> "memory_usage", operator |-> ">"],
                          [metric |-> "cpu_usage", operator |-> "~", threshold |-> 5]>>],
     StatusAbove |->
        [name |-> "StatusAbove",
         conditions |-> <<[metric |-> "status", operator |-> "!=", threshold |-> 0],
                          [metric |-> "status", operator |-> ">", threshold |-> 0]>>]]

FeatureConfigs ==
    {EmptyMap} \cup
    [multi_metric_anomaly_rules :
        {<<PatternRuleCatalogue.HighCpuAndMemory, PatternRuleCatalogue.ErrorsWithTraffic,
           PatternRuleCatalogue.LatencyLast>>,
         <<PatternRuleCatalogue.HalfWritten, PatternRuleCatalogue.OddOperator,
           PatternRuleCatalogue.NoConditions, PatternRuleCatalogue.AllSkipped>>,
         <<PatternRuleCatalogue.HighCpuAndMemory, PatternRuleCatalogue.StatusAbove,
           PatternRuleCatalogue.ErrorsWithTraffic>>}]

FeaturesInit ==
    /\ tpConfig \in FeatureConfigs
    /\ telemetry_data \in FeatureFrames
    /\ df = telemetry_data
    /\ prepared = 1
    /\ tpCall = NoCall
    /\ RcaIdle /\ RecIdle /\ TrainerIdle /\ ClustersIdle

ExtractFeatures ==
    /\ tpCall = NoCall
    /\ \E f \in extract_features(df) :
          tpCall' = [op |-> "_extract_features", out |-> f]
    /\ UNCHANGED <<tpConfig, telemetry_data, df, prepared, rcaVars, recVars, mtVars, paVars>>

DetectAnomalousPatterns ==
    /\ tpCall = NoCall
    /\ tpCall' = [op |-> "_detect_anomalous_patterns",
                  out |-> detect_anomalous_patterns(df, tpConfig)]
    /\ UNCHANGED <<tpConfig, telemetry_data, df, prepared, rcaVars, recVars, mtVars, paVars>>

FeaturesNext == ExtractFeatures \/ DetectAnomalousPatterns

SpecFeatures == FeaturesInit /\ [][FeaturesNext]_vars

FeaturesDone == tpCall # NoCall /\ tpCall.op = "_extract_features"

PatternsDone == tpCall # NoCall /\ tpCall.op = "_detect_anomalous_patterns"

\* the metrics, the columns that carry them, their feature group and the
\* derived features computed from them
Metrics == {"cpu", "memory", "errors", "network", "requests"}

MetricColumns(m) ==
    CASE m = "cpu" -> {"cpu_usage", "cpu_usage_avg"}
      [] m = "memory" -> {"memory_usage", "memory_usage_avg"}
      [] m = "errors" -> {"error_count", "error_count_sum"}
      [] m = "network" -> {"network_latency"}
      [] OTHER -> {"request_count"}

DerivedFrom(m) ==
    CASE m = "cpu" -> {"cpu_to_memory_ratio", "resource_utilization_ratio",
                       "cpu_usage_volatility"}
      [] m = "memory" -> {"cpu_to_memory_ratio", "resource_utilization_ratio",
                          "memory_usage_trend_slope"}
      [] m = "errors" -> {"error_rate"}
      [] m = "network" -> {}
      [] OTHER -> {"error_rate", "requests_per_minute"}

MetricAbsent(m) == \A c \in MetricColumns(m) : ~HasCol(df, c)

ConfiguredPatternRules == Get(tpConfig, "multi_metric_anomaly_rules", <<>>)

RefersToAbsentMetric(rule) ==
    \E i \in DOMAIN rule.conditions : \E m \in Metrics :
        /\ MetricAbsent(m)
        /\ "metric" \in DOMAIN rule.conditions[i]
        /\ rule.conditions[i]["metric"] \in MetricColumns(m)

DerivedNames ==
    {"error_rate", "cpu_to_memory_ratio", "resource_utilization_ratio",
     "cpu_usage_volatility", "memory_usage_trend_slope", "requests_per_minute"}

\* the derived features that are 0.0 when the metric's column is absent
ZeroWithout(m) ==
    CASE m = "cpu" -> {"cpu_to_memory_ratio", "cpu_usage_volatility"}
      [] m = "memory" -> {"cpu_to_memory_ratio", "memory_usage_trend_slope"}
      [] m = "errors" -> {"error_rate"}
      [] m = "network" -> {}
      [] OTHER -> {"error_rate", "requests_per_minute"}

RefersCompletelyToAbsentMetric(rule) ==
    \E i \in DOMAIN rule.conditions : \E m \in Metrics :
        /\ MetricAbsent(m)
        /\ DOMAIN rule.conditions[i] = {"metric", "operator", "threshold"}
        /\ rule.conditions[i]["metric"] \in MetricColumns(m)

C10_RuleWitness ==
    /\ PatternsDone
    /\ MetricAbsent("network")
    /\ ConfiguredPatternRules # <<>>
    /\ ConfiguredPatternRules[3].name = "LatencyLast"
    /\ "LatencyLast" \notin DOMAIN tpCall.out
    /\ "HighCpuAndMemory" \in DOMAIN tpCall.out

\* the number of CPU samples of the batch
CpuSamples == IF MetricAbsent("cpu") THEN 0 ELSE Len(df.rows)

\* C11: for every batch with fewer than 2 CPU samples the derived features
\* carry cpu_usage_volatility, and it is exactly 0.0.
C11_VolatilityZeroBelowTwoSamples ==
    (FeaturesDone /\ CpuSamples < 2) =>
        /\ "cpu_usage_volatility" \in DOMAIN tpCall.out["derived"]
        /\ tpCall.out["derived"]["cpu_usage_volatility"] = Zero

\* what the code does keep: on a single-snapshot batch cpu_usage_volatility
\* is 0.0
C11_SingleSnapshotVolatilityZero ==
    (FeaturesDone /\ Len(df.rows) = 1) =>
        /\ "cpu_usage_volatility" \in DOMAIN tpCall.out["derived"]
        /\ tpCall.out["derived"]["cpu_usage_volatility"] = Zero

\* a single snapshot with a cpu column has been aggregated
C11_SingleSnapshotReached ==
    /\ FeaturesDone
    /\ Len(df.rows) = 1
    /\ ~MetricAbsent("cpu")
    /\ tpCall.out["derived"]["cpu_usage_volatility"] = Zero

\* C15: the rule detector returns a result, not an exception, and a failure
\* while one metric is analysed does not keep the rules on the other metrics
\* from being reported: every rule that a row satisfies, and that does not
\* itself fail, is in the result.
C15_FailureIsolatedPerMetric ==
    PatternsDone =>
        \A i \in DOMAIN ConfiguredPatternRules :
            (/\ ~RuleRaises(ConfiguredPatternRules[i], df)
             /\ RuleReported(ConfiguredPatternRules[i], df)) =>
                ConfiguredPatternRules[i].name \in DOMAIN tpCall.out

\* what the code does keep: without a failing rule every satisfied rule is
\* reported
C15_ReportedWithoutFailure ==
    (PatternsDone /\ \A i \in DOMAIN ConfiguredPatternRules :
                        ~RuleRaises(ConfiguredPatternRules[i], df)) =>
        \A i \in DOMAIN ConfiguredPatternRules :
            RuleReported(ConfiguredPatternRules[i], df) =>
                ConfiguredPatternRules[i].name \in DOMAIN tpCall.out

\* row r of the batch meets the condition: its metric is a column of the
\* batch and the cell compares as the operator says
ConditionHolds(cond, frame, r) ==
    /\ "metric" \in DOMAIN cond /\ "operator" \in DOMAIN cond /\ "threshold" \in DOMAIN cond
    /\ cond["metric"] \in Range(frame.cols)
    /\ cond["operator"] \in {">", "<", ">=", "<=", "==", "!="}
    /\ LET cell == frame.rows[r][cond["metric"]]
       IN IF cell.k = "str" THEN cond["operator"] = "!="
          ELSE PatternCompare(cell.v, cond["operator"], cond["threshold"])

\* the rows that satisfy the conjunction of all conditions of the rule, in
\* the order of the batch
SatisfyingRows(rule, frame) ==
    SelectSeq([r \in DOMAIN frame.rows |-> r],
              LAMBDA r : \A c \in DOMAIN rule.conditions :
                             ConditionHolds(rule.conditions[c], frame, r))

ConditionOnAbsentColumn(rule, frame) ==
    \E c \in DOMAIN rule.conditions :
        /\ "metric" \in DOMAIN rule.conditions[c]
        /\ rule.conditions[c]["metric"] \notin Range(frame.cols)

\* the entry of the rule is what its satisfying rows say
EntryMatchesRows(rule, frame, out) ==
    LET sat == SatisfyingRows(rule, frame)
    IN /\ (rule.name \in DOMAIN out) <=> (sat # <<>>)
       /\ rule.name \in DOMAIN out =>
             /\ out[rule.name].count = Len(sat)
             /\ ("occurrences_timestamps" \in DOMAIN out[rule.name]) <=>
                    ("timestamp" \in Range(frame.cols))
             /\ "timestamp" \in Range(frame.cols) =>
                    out[rule.name]["occurrences_timestamps"] =
                        [k \in DOMAIN sat |-> frame.rows[sat[k]]["timestamp"].v]

\* C19: each configured rule is reported if and only if at least one row of
\* the batch satisfies the conjunction of all its conditions, with count the
\* number of such rows and one recorded timestamp per such row when the batch
\* has a timestamp column; a rule with a condition on a metric that is absent
\* from the batch is not reported.
C19_ReportedIffSomeRowSatisfies ==
    PatternsDone =>
        \A i \in DOMAIN ConfiguredPatternRules :
            /\ EntryMatchesRows(ConfiguredPatternRules[i], df, tpCall.out)
            /\ ConditionOnAbsentColumn(ConfiguredPatternRules[i], df) =>
                   ConfiguredPatternRules[i].name \notin DOMAIN tpCall.out

\* every condition names a metric, a supported operator and a threshold
WellFormedRule(rule) ==
    /\ rule.conditions # <<>>
    /\ \A c \in DOMAIN rule.conditions :
          /\ DOMAIN rule.conditions[c] = {"metric", "operator", "threshold"}
          /\ rule.conditions[c]["operator"] \in {">", "<", ">=", "<=", "==", "!="}

\* what the code does keep: when no rule of the configuration fails, a rule
\* whose conditions are all well formed is reported exactly on its satisfying
\* rows, and not at all when one of its metrics is absent
C19_WellFormedRulesWithoutFailure ==
    (PatternsDone /\ \A i \in DOMAIN ConfiguredPatternRules :
                        ~RuleRaises(ConfiguredPatternRules[i], df)) =>
        \A i \in DOMAIN ConfiguredPatternRules :
            WellFormedRule(ConfiguredPatternRules[i]) =>
                /\ EntryMatchesRows(ConfiguredPatternRules[i], df, tpCall.out)
                /\ ConditionOnAbsentColumn(ConfiguredPatternRules[i], df) =>
                       ConfiguredPatternRules[i].name \notin DOMAIN tpCall.out

\* a row satisfies every condition of HighCpuAndMemory and the rule is not
\* reported, the comparison of a later rule having failed
C19_SatisfiedRuleLost ==
    /\ PatternsDone
    /\ \E i \in DOMAIN ConfiguredPatternRules :
          /\ WellFormedRule(ConfiguredPatternRules[i])
          /\ SatisfyingRows(ConfiguredPatternRules[i], df) # <<>>
          /\ ConfiguredPatternRules[i].name \notin DOMAIN tpCall.out

\* a well-formed rule was reported with two rows and their two timestamps
C19_TwoRowsReported ==
    /\ PatternsDone
    /\ HasCol(df, "timestamp")
    /\ "HighCpuAndMemory" \in DOMAIN tpCall.out
    /\ tpCall.out["HighCpuAndMemory"].count = 2
    /\ Len(tpCall.out["HighCpuAndMemory"]["occurrences_timestamps"]) = 2

(***************************************************************************)
(* Anomaly scoring                                                          *)
(***************************************************************************)
default_anomaly_threshold_percentile == 95

\* TelemetryProcessor._flatten_features_for_detection
flatten_features_for_detection(features, frame) ==
    LET means == [c \in Range(NumericCols(frame)) |-> ColMean(frame, c)]
        derived == [k \in {k \in DOMAIN features["derived"] :
                              IsFinite(features["derived"][k])} |->
                       features["derived"][k]]
        aliases == (IF "cpu" \in DOMAIN features
                    THEN "cpu_average" :> features["cpu"].average ELSE EmptyMap)
                   @@ (IF "memory" \in DOMAIN features
                       THEN "memory_average" :> features["memory"].average ELSE EmptyMap)
    IN aliases @@ derived @@ means

\* lines 227-249: the single row of the feature matrix, one entry per
\* configured name, 0.0 for a name without a finite value
FeatureRow(flattened, configured) ==
    [i \in DOMAIN configured |->
        IF configured[i] \in DOMAIN flattened /\ IsFinite(flattened[configured[i]])
        THEN flattened[configured[i]] ELSE Zero]

\* StandardScaler.fit_transform on the one-row matrix of line 249: the sample
\* is its own mean, so every scaled value is 0
StandardScale(row) == [i \in DOMAIN row |-> 0]

\* lines 305-316: PCA is skipped for fewer than two features; on a single
\* sample sklearn either projects onto one component or raises
PcaOutcomes(scaled) ==
    IF Len(scaled) < 2 THEN {[raised |-> FALSE, features |-> <<scaled>>]}
    ELSE {[raised |-> FALSE, features |-> <<(<<0>>)>>],
          [raised |-> TRUE, features |-> <<>>]}

\* the Mahalanobis distances of the rows of a one-column matrix, in units of
\* (standard deviation / number of rows): a common positive factor, which
\* neither the percentile nor the comparison with it depends on
ScaledDeviations(column) ==
    [i \in DOMAIN column |-> Abs(Len(column) * column[i] - SumSeq(column))]

\* TelemetryProcessor._calculate_mahalanobis_distance
calculate_mahalanobis_distance(matrix) ==
    IF Len(matrix) < 2 THEN [i \in DOMAIN matrix |-> 0]
    ELSE ScaledDeviations([i \in DOMAIN matrix |-> matrix[i][1]])

\* np.percentile(values, q) with linear interpolation, q a whole percentage
Percentile(values, q) ==
    LET a == SortAsc(values)
        pos == (Len(a) - 1) * q
        k == pos \div 100
        r == pos % 100
    IN IF r = 0 THEN Rat(a[k + 1], 1)
       ELSE Rat(100 * a[k + 1] + r * (a[k + 2] - a[k + 1]), 100)

\* lines 323-344
ScoreDistances(distances, row, configured, config) ==
    LET threshold_value ==
            Percentile(distances,
                       Get(config, "anomaly_threshold_percentile",
                           default_anomaly_threshold_percentile))
        anomaly_indices == SelectSeq([i \in DOMAIN distances |-> i],
                               LAMBDA i : RatLess(threshold_value, Rat(distances[i], 1)))
    IN IF anomaly_indices # <<>>
       THEN [detected |-> TRUE,
             details |-> <<[distance_score |-> Rat(distances[anomaly_indices[1]], 1),
                            threshold_value |-> threshold_value,
                            anomalous_feature_values |->
                                [nm \in Range(configured) |->
                                    row[CHOOSE i \in DOMAIN configured :
                                            /\ configured[i] = nm
                                            /\ \A j \in DOMAIN configured :
                                                  configured[j] = nm => j <= i]]]>>]
       ELSE [detected |-> FALSE, details |-> <<>>]

\* a value of a feature mapping is a number or a dictionary
IsNumber(v) == DOMAIN v = {"n", "d"}

\* line 214: the mapping has a dictionary among its values
IsNestedMapping(features) == \E k \in DOMAIN features : ~IsNumber(features[k])

\* features.get(group, {}).get(key, 0.0) or 0.0
LegacyValue(features, group, key) ==
    IF group \in DOMAIN features /\ key \in DOMAIN features[group]
    THEN features[group][key] ELSE Zero

\* TelemetryProcessor._prepare_feature_matrix: the one-row matrix and the
\* names of its columns, or no matrix.  On the nested path a group that is a
\* number has no .get and the exception handler of line 250 returns no matrix.
prepare_feature_matrix(features, config) ==
    LET configured == Get(config, "anomaly_detection_features", <<>>)
        none == [prepared |-> FALSE, row |-> <<>>, names |-> <<>>]
    IN IF IsNestedMapping(features)
       THEN IF \E g \in {"cpu", "memory", "errors"} \cap DOMAIN features :
                   IsNumber(features[g])
            THEN none
            ELSE [prepared |-> TRUE,
                  row |-> <<LegacyValue(features, "cpu", "average"),
                            LegacyValue(features, "memory", "average"),
                            LegacyValue(features, "errors", "total")>>,
                  names |-> <<"cpu_average", "memory_average", "error_total">>]
       ELSE IF configured = <<>> THEN none
            ELSE [prepared |-> TRUE, row |-> FeatureRow(features, configured),
                  names |-> configured]

\* mutant: an exception of the scoring leaves _detect_anomalies
Propagate(msg) == [error |-> msg]

\* lines 345-347: the result for an exception raised while scoring
ExceptionResult(msg) == [detected |-> FALSE, details |-> <<[error |-> msg]>>]

\* TelemetryProcessor._detect_anomalies on a feature mapping: the results it
\* can return
detect_anomalies(features, config) ==
    LET matrix == prepare_feature_matrix(features, config)
    IN IF ~matrix.prepared
       THEN {[detected |-> FALSE,
              details |-> <<[error |-> "Feature matrix could not be prepared."]>>]}
       ELSE {IF pca.raised
             THEN ExceptionResult("PCA")
             ELSE ScoreDistances(calculate_mahalanobis_distance(pca.features),
                                 matrix.row, matrix.names, config) :
                pca \in PcaOutcomes(StandardScale(matrix.row))}

\* lines 433-436 and 848-856, for a frame without a timestamp column: no
\* period trends and no periodic patterns
analyze_trends(frame, config) ==
    [short_term |-> EmptyMap, long_term |-> EmptyMap,
     patterns |-> [periodic |-> EmptyMap,
                   correlations |-> detect_correlations(frame, config),
                   anomalous |-> detect_anomalous_patterns(frame, config)]]

\* TelemetryProcessor._generate_performance_insights
generate_performance_insights(features) ==
    LET cpu_avg == IF "cpu" \in DOMAIN features THEN features["cpu"].average ELSE Zero
        cpu_pct == IF RatLess(Rat(1, 1), cpu_avg) THEN cpu_avg
                   ELSE Rat(100 * cpu_avg.n, cpu_avg.d)
        mem_avg == IF "memory" \in DOMAIN features THEN features["memory"].average ELSE Zero
        derived == features["derived"]
    IN (IF RatLess(Rat(80, 1), cpu_pct)
        THEN <<[type |-> "performance", component |-> "CPU", priority |-> "high",
                message |-> "High CPU utilization detected"]>> ELSE <<>>)
       \o (IF RatLess(Rat(90, 1), mem_avg)
           THEN <<[type |-> "performance", component |-> "Memory", priority |-> "high",
                   message |-> "High memory utilization detected"]>> ELSE <<>>)
       \o (IF "error_rate" \in DOMAIN derived /\ RatLess(Rat(1, 10), derived["error_rate"])
           THEN <<[type |-> "performance", component |-> "System", priority |-> "medium",
                   message |-> "High error rate detected"]>> ELSE <<>>)

\* TelemetryProcessor._generate_anomaly_insights
generate_anomaly_insights(anomalies) ==
    IF anomalies.detected
    THEN [i \in DOMAIN anomalies.details |->
             IF "error" \in DOMAIN anomalies.details[i]
             THEN [type |-> "anomaly_error", priority |-> "medium",
                   message |-> "Error during anomaly detection process."]
             ELSE [type |-> "anomaly", priority |-> "high",
                   message |-> "Anomaly detected"]]
    ELSE <<>>

\* the features of one period in dictionary order; nothing below depends on
\* which order that is
RECURSIVE KeysInOrder(_)
KeysInOrder(S) ==
    IF S = {} THEN <<>>
    ELSE LET k == CHOOSE x \in S : TRUE IN <<k>> \o KeysInOrder(S \ {k})

\* mutant: a significant trend is reported whatever its direction
SignificantOnly(trend_info, p_value_threshold) ==
    PValueBelow(Get(trend_info, "p_value", "1.0"), p_value_threshold)

\* line 511: the test a trend record has to pass to be reported
TrendReported(trend_info, p_value_threshold) ==
    /\ PValueBelow(Get(trend_info, "p_value", "1.0"), p_value_threshold)
    /\ Get(trend_info, "direction", "none") # "stable"

\* TelemetryProcessor._generate_trend_insights.  The entries under 'patterns'
\* are not trend records and carry no p_value, so the default of 1.0 keeps
\* them out; only the two periods are visited here.
generate_trend_insights(trends_data, config) ==
    LET p_value_threshold == PValueThreshold(config)
        Of(period_type) ==
            LET period_trends == Get(trends_data, period_type, EmptyMap)
                reported == SelectSeq(KeysInOrder(DOMAIN period_trends),
                                LAMBDA f : TrendReported(period_trends[f],
                                                         p_value_threshold))
            IN [i \in DOMAIN reported |->
                   [type |-> "trend", priority |-> "medium",
                    component |-> reported[i], period |-> period_type,
                    direction |-> period_trends[reported[i]].direction]]
    IN Of("short_term") \o Of("long_term")

default_priority_score == 500

\* line 554: the sort key, in thousandths
PriorityScore(insight) == Get(insight, "priority_score", default_priority_score)

\* sorted(insights, key=priority_score, reverse=True): a stable sort, equal
\* keys stay in their order
RECURSIVE InsertByScore(_, _)
InsertByScore(sorted, x) ==
    IF sorted = <<>> THEN <<x>>
    ELSE IF PriorityScore(x) > PriorityScore(Head(sorted)) THEN <<x>> \o sorted
         ELSE <<Head(sorted)>> \o InsertByScore(Tail(sorted), x)

RECURSIVE SortByPriorityScore(_)
SortByPriorityScore(insights) ==
    IF insights = <<>> THEN <<>>
    ELSE InsertByScore(SortByPriorityScore(SubSeq(insights, 1, Len(insights) - 1)),
                       insights[Len(insights)])

\* TelemetryProcessor._generate_insights
generate_insights(features, anomalies, trends, config) ==
    SortByPriorityScore(
        generate_performance_insights(features)
        \o (IF anomalies.detected THEN generate_anomaly_insights(anomalies) ELSE <<>>)
        \o generate_trend_insights(trends, config))

\* mutant: any column name counts as a supported metric
AnyColumnSupported ==
    {"status", "cpu_usage_avg", "memory_usage_avg"}

expected_metric_cols ==
    {"cpu_usage", "cpu_usage_avg", "memory_usage", "memory_usage_avg", "disk_usage",
     "disk_io_avg", "network_latency", "error_count", "error_count_sum", "error_rate",
     "warning_count", "request_count", "response_time", "response_time_avg",
     "response_time_p95"}

ValueError(msg) == [error |-> msg]

\* df.empty: no row or no column
IsEmptyFrame(frame) == frame.rows = <<>> \/ frame.cols = <<>>

\* TelemetryProcessor.process_telemetry on None or a list of snapshots: the
\* results it can return; a raised ValueError is an outcome.  A batch that
\* gets as far as the trend analysis has no timestamp column.
process_telemetry(batch, config) ==
    IF batch = None THEN {ValueError("telemetry_data must not be None")}
    ELSE IF batch.rows = <<>> THEN {ValueError("telemetry_data must not be empty")}
    ELSE UNION {
        IF IsEmptyFrame(frame)
        THEN {ValueError("telemetry_data produced an empty DataFrame")}
        ELSE IF \A c \in Range(frame.cols) : c = "timestamp"
        THEN {ValueError("telemetry_data is missing metric columns")}
        ELSE IF Range(frame.cols) \cap expected_metric_cols = {}
        THEN {ValueError("telemetry_data does not contain any supported metric columns")}
        ELSE UNION {
            {[processed_data |-> frame,
              features |-> features,
              flattened_features |-> flatten_features_for_detection(features, frame),
              anomalies |-> anomalies,
              trends |-> analyze_trends(frame, config),
              insights |-> generate_insights(features, anomalies,
                                             analyze_trends(frame, config), config)] :
                anomalies \in detect_anomalies(
                                  flatten_features_for_detection(features, frame), config)} :
            features \in extract_features(frame)} :
        frame \in prepare_data(batch, config)}

(***************************************************************************)
(* Telemetry processing as a state machine                                  *)
(***************************************************************************)
SnapshotRows ==
    [timestamp : {NumV(0)},
     cpu_usage_avg : {NumV(50), NumV(55), NumV(95)},
     memory_usage_avg : {NumV(30), NumV(60)},
     status : {StrV}]

SnapshotColumnLists ==
    {<<"cpu_usage_avg">>, <<"cpu_usage_avg", "memory_usage_avg">>, <<"status">>,
     <<>>, <<"timestamp">>, <<"timestamp", "status">>}

\* None, the empty list, lists of empty snapshots, and lists of snapshots
\* with the same keys
SnapshotBatches ==
    {None} \cup
    {Frame(cols, [i \in DOMAIN rows |-> Project(rows[i], cols)], "object") :
        cols \in SnapshotColumnLists,
        rows \in SeqsUpTo(SnapshotRows, MaxRows)}

AnomalyFeatureLists ==
    {<<"cpu_usage_avg">>, <<"cpu_usage_avg", "memory_usage_avg">>,
     <<"cpu_usage_avg", "queue_depth">>}

AnomalyConfigs ==
    {EmptyMap}
    \cup [anomaly_detection_features : AnomalyFeatureLists]
    \cup [anomaly_detection_features : AnomalyFeatureLists,
          anomaly_threshold_percentile : {50, 95}]

AnomalyInit ==
    /\ tpConfig \in AnomalyConfigs
    /\ telemetry_data \in SnapshotBatches
    /\ df = telemetry_data
    /\ prepared = 0
    /\ tpCall = NoCall
    /\ RcaIdle /\ RecIdle /\ TrainerIdle /\ ClustersIdle

ProcessTelemetry ==
    /\ tpCall = NoCall
    /\ \E result \in process_telemetry(telemetry_data, tpConfig) :
          tpCall' = [op |-> "process_telemetry", out |-> result]
    /\ UNCHANGED <<tpConfig, telemetry_data, df, prepared, rcaVars, recVars, mtVars, paVars>>

\* the feature mappings _detect_anomalies is called with: the flattened
\* features of the pipeline, the nested features of _extract_features, and a
\* nested mapping whose cpu group is a number
FeatureMappings(batch, config) ==
    UNION {UNION {{flatten_features_for_detection(features, frame),
                   features,
                   [features EXCEPT !["cpu"] = Zero]} :
                      features \in {f \in extract_features(frame) : "cpu" \in DOMAIN f}} :
              frame \in prepare_data(batch, config)}

DetectAnomalies ==
    /\ tpCall = NoCall
    /\ telemetry_data # None
    /\ telemetry_data.rows # <<>>
    /\ \E features \in FeatureMappings(telemetry_data, tpConfig) :
          \E result \in detect_anomalies(features, tpConfig) :
              tpCall' = [op |-> "_detect_anomalies", features |-> features, out |-> result]
    /\ UNCHANGED <<tpConfig, telemetry_data, df, prepared, rcaVars, recVars, mtVars, paVars>>

AnomalyNext == ProcessTelemetry \/ DetectAnomalies

SpecAnomaly == AnomalyInit /\ [][AnomalyNext]_vars

Processed ==
    /\ tpCall # NoCall
    /\ tpCall.op = "process_telemetry"
    /\ "error" \notin DOMAIN tpCall.out

\* the distance of each sample of the normalised batch on one feature
SampleDistances(feature) ==
    calculate_mahalanobis_distance(
        [i \in DOMAIN tpCall.out.processed_data.rows |->
            <<tpCall.out.processed_data.rows[i][feature].v>>])

ConfiguredPercentile ==
    Get(tpConfig, "anomaly_threshold_percentile", default_anomaly_threshold_percentile)

\* C5: for a batch of at least two samples and a configured feature list,
\* detected is true exactly when some sample's distance is strictly greater
\* than the configured percentile of the batch's per-sample distances, and a
\* reported distance_score is strictly greater than the reported
\* threshold_value.
C5_DetectedIffBeyondPercentile ==
    (/\ Processed
     /\ Len(tpCall.out.processed_data.rows) >= 2
     /\ Get(tpConfig, "anomaly_detection_features", <<>>) = <<"cpu_usage_avg">>) =>
        LET d == SampleDistances("cpu_usage_avg")
            anomalies == tpCall.out.anomalies
        IN /\ anomalies.detected <=>
                 \E i \in DOMAIN d : RatLess(Percentile(d, ConfiguredPercentile), Rat(d[i], 1))
           /\ anomalies.detected =>
                 RatLess(anomalies.details[1].threshold_value,
                         anomalies.details[1].distance_score)

CpuBatch(values) ==
    Frame(<<"cpu_usage_avg">>,
          [i \in DOMAIN values |-> [cpu_usage_avg |-> NumV(values[i])]], "object")

\* C6: processing the batch of cpu_usage_avg 50, 55, 95 with the feature list
\* ["cpu_usage_avg"] and percentile 95 returns anomalies.detected = true.
C6_OutlierSnapshotFlagged ==
    (/\ tpCall # NoCall
     /\ telemetry_data = CpuBatch(<<50, 55, 95>>)
     /\ tpConfig = [anomaly_detection_features |-> <<"cpu_usage_avg">>,
                    anomaly_threshold_percentile |-> 95]) =>
        /\ Processed
        /\ tpCall.out.anomalies.detected

\* the five kinds of input that process_telemetry refuses
IsNoneInput == telemetry_data = None

IsEmptyList == ~IsNoneInput /\ telemetry_data.rows = <<>>

YieldsEmptyTable == ~IsNoneInput /\ telemetry_data.rows # <<>> /\ telemetry_data.cols = <<>>

OnlyTimestampColumn ==
    /\ ~IsNoneInput
    /\ telemetry_data.cols # <<>>
    /\ \A c \in Range(telemetry_data.cols) : c = "timestamp"

NoRecognizedColumn ==
    /\ ~IsNoneInput
    /\ Range(telemetry_data.cols) \cap
          {"cpu_usage", "cpu_usage_avg", "memory_usage", "memory_usage_avg", "disk_usage",
           "disk_io_avg", "network_latency", "error_count", "error_count_sum",
           "error_rate", "warning_count", "request_count", "response_time",
           "response_time_avg", "response_time_p95"} = {}

RefusedInput ==
    IsNoneInput \/ IsEmptyList \/ YieldsEmptyTable \/ OnlyTimestampColumn
        \/ NoRecognizedColumn

ProcessCalled == tpCall # NoCall /\ tpCall.op = "process_telemetry"

\* C12: process_telemetry raises, and returns no result object, when the
\* input is None, is an empty list, produces an empty table, has no column
\* other than timestamp, or has none of the recognized metric columns.
C12_RefusedInputRaises ==
    (ProcessCalled /\ RefusedInput) =>
        /\ DOMAIN tpCall.out = {"error"}
        /\ "processed_data" \notin DOMAIN tpCall.out

\* a batch of two snapshots that carry a timestamp and a status, and no
\* metric, got as far as the metric-column check and was refused there
C12_Witness ==
    /\ ProcessCalled
    /\ telemetry_data # None
    /\ telemetry_data.cols = <<"timestamp", "status">>
    /\ Len(telemetry_data.rows) = 2
    /\ tpCall.out = ValueError("telemetry_data does not contain any supported metric columns")

\* each of the other refusals has happened
C12_NoneRefused ==
    ProcessCalled /\ IsNoneInput /\ tpCall.out = ValueError("telemetry_data must not be None")

C12_EmptyTableRefused ==
    /\ ProcessCalled /\ YieldsEmptyTable
    /\ tpCall.out = ValueError("telemetry_data produced an empty DataFrame")

C12_TimestampOnlyRefused ==
    /\ ProcessCalled /\ OnlyTimestampColumn
    /\ tpCall.out = ValueError("telemetry_data is missing metric columns")

DetectDone == tpCall # NoCall /\ tpCall.op = "_detect_anomalies"

HasErrorDetail(anomalies) ==
    /\ Len(anomalies.details) = 1
    /\ DOMAIN anomalies.details[1] = {"error"}

\* the feature mapping yields no feature matrix: nothing is configured for a
\* flat mapping, or a group of a nested mapping is not a dictionary
NoFeatureMatrix(features) ==
    IF \E k \in DOMAIN features : DOMAIN features[k] # {"n", "d"}
    THEN \E g \in {"cpu", "memory", "errors"} \cap DOMAIN features :
             DOMAIN features[g] = {"n", "d"}
    ELSE Get(tpConfig, "anomaly_detection_features", <<>>) = <<>>

\* C14: _detect_anomalies never raises: it always returns a result with the
\* keys detected and details; when no feature matrix can be prepared, or a
\* numerical step fails, the result has detected = false and one details
\* entry that carries the error string; and process_telemetry, once the input
\* is accepted, returns a result whose anomalies field is such a result.
C14_ScoringNeverRaises ==
    /\ DetectDone =>
          /\ DOMAIN tpCall.out = {"detected", "details"}
          /\ NoFeatureMatrix(tpCall.features) =>
                 ~tpCall.out.detected /\ HasErrorDetail(tpCall.out)
          /\ \A i \in DOMAIN tpCall.out.details :
                 "error" \in DOMAIN tpCall.out.details[i] =>
                     ~tpCall.out.detected /\ HasErrorDetail(tpCall.out)
    /\ (ProcessCalled /\ ~RefusedInput) =>
          /\ Processed
          /\ DOMAIN tpCall.out.anomalies = {"detected", "details"}

\* the nested features of a batch were scored, the projection of the single
\* 1 x 3 sample failed, and the failure came back as an error detail
C14_Witness ==
    /\ DetectDone
    /\ "derived" \in DOMAIN tpCall.features
    /\ ~NoFeatureMatrix(tpCall.features)
    /\ tpCall.out = [detected |-> FALSE, details |-> <<[error |-> "PCA"]>>]

\* a nested mapping whose cpu group is a number gave no feature matrix
C14_NoMatrixReached ==
    /\ DetectDone
    /\ "derived" \in DOMAIN tpCall.features
    /\ NoFeatureMatrix(tpCall.features)
    /\ tpCall.out = [detected |-> FALSE,
                     details |-> <<[error |-> "Feature matrix could not be prepared."]>>]

\* what the code does on every batch: one aggregated row is scored, its
\* distance is 0, and nothing is flagged
NeverDetected == Processed => ~tpCall.out.anomalies.detected

(***************************************************************************)
(* RootCauseAnalyzer: recommendations                                       *)
(*                                                                          *)
(* A priority score is in millionths (300000 = 0.3): a cause's score is the *)
(* product of its impact and its confidence, both in thousandths.  The      *)
(* details text of a cause-based recommendation is represented by the       *)
(* cause's type, a source by the words it is made of.  A dictionary of      *)
(* pattern results is the sequence of its items, in insertion order.        *)
(***************************************************************************)
MaxCauses == 2

default_cause_factor == 500

default_pattern_priority == 300000

RECURSIVE Flatten(_)
Flatten(seqs) == IF seqs = <<>> THEN <<>> ELSE Head(seqs) \o Flatten(Tail(seqs))

\* lines 448-454
CauseRecommendation(cause) ==
    [action |-> Get(cause, "recommendation", "Review cause details."),
     priority_score |-> Get(cause, "impact", default_cause_factor)
                            * Get(cause, "confidence", default_cause_factor),
     source |-> <<"RootCauseEstimator">>,
     details |-> Get(cause, "type", "Unknown")]

\* lines 461-468 and 473-480: the entries for one "recommendations" list
PatternRecommendations(recs, source) ==
    LET with_action == SelectSeq(recs, LAMBDA rec : "action" \in DOMAIN rec)
    IN [i \in DOMAIN with_action |->
           [action |-> with_action[i]["action"],
            priority_score |-> Get(with_action[i], "priority", default_pattern_priority),
            source |-> source,
            details |-> Get(with_action[i], "details", "")]]

\* lines 458-480: one item of patterns_analysis
PatternTypeRecommendations(item) ==
    IF "recommendations" \in DOMAIN item.data
    THEN PatternRecommendations(item.data["recommendations"],
                                <<"PatternAnalyzer", item.key>>)
    ELSE Flatten([j \in DOMAIN item.data["items"] |->
             IF "recommendations" \in DOMAIN item.data["items"][j].data
             THEN PatternRecommendations(
                      item.data["items"][j].data["recommendations"],
                      <<"PatternAnalyzer", item.key, item.data["items"][j].key>>)
             ELSE <<>>])

\* lines 444-480: the list handed to _prioritize_recommendations
CollectRecommendations(cs, pa) ==
    [i \in DOMAIN cs |-> CauseRecommendation(cs[i])]
    \o Flatten([i \in DOMAIN pa |-> PatternTypeRecommendations(pa[i])])

PriorityKey(rec) == Get(rec, "priority_score", 0)

\* sorted(recommendations, key=priority_score, reverse=True): stable, equal
\* scores keep their order
RECURSIVE InsertByPriority(_, _)
InsertByPriority(sorted, rec) ==
    IF sorted = <<>> THEN <<rec>>
    ELSE IF PriorityKey(rec) > PriorityKey(Head(sorted)) THEN <<rec>> \o sorted
         ELSE <<Head(sorted)>> \o InsertByPriority(Tail(sorted), rec)

RECURSIVE SortByPriorityDesc(_)
SortByPriorityDesc(recs) ==
    IF recs = <<>> THEN <<>>
    ELSE InsertByPriority(SortByPriorityDesc(SubSeq(recs, 1, Len(recs) - 1)),
                          recs[Len(recs)])

\* mutant: the recommendations are left in the order they were collected
Unsorted(recs) == recs

SortRecommendations(recs) == SortByPriorityDesc(recs)

\* lines 516-522: the first entry of each action is kept
RECURSIVE KeepFirstOfEachAction(_)
KeepFirstOfEachAction(recs) ==
    IF recs = <<>> THEN <<>>
    ELSE LET init == KeepFirstOfEachAction(SubSeq(recs, 1, Len(recs) - 1))
             last == recs[Len(recs)]
         IN IF \E i \in DOMAIN init : init[i].action = last.action THEN init
            ELSE Append(init, last)

\* RootCauseAnalyzer._prioritize_recommendations
prioritize_recommendations(recs) == KeepFirstOfEachAction(SortRecommendations(recs))

\* RootCauseAnalyzer.generate_recommendations
generate_recommendations(cs, pa) ==
    prioritize_recommendations(CollectRecommendations(cs, pa))

(***************************************************************************)
(* Recommendations as a state machine                                       *)
(***************************************************************************)
CauseCatalogue ==
    {[type |-> "CPU Overload", recommendation |-> "Scale up",
      impact |-> 800, confidence |-> 700, trigger_reason |-> "cpu"],
     [type |-> "Memory Leak", recommendation |-> "Scale up",
      impact |-> 700, confidence |-> 950, trigger_reason |-> "memory"],
     [type |-> "Network Issue", recommendation |-> "Check network",
      impact |-> 600, confidence |-> 500, trigger_reason |-> "network"],
     [type |-> "Unnamed"]}

PatternItem(key, data) == [key |-> key, data |-> data]

PatternCatalogue ==
    {<<>>,
     <<PatternItem("temporal", [recommendations |-> <<>>]),
       PatternItem("behavioral",
           [recommendations |-> <<[action |-> "Investigate clusters",
                                   priority |-> 400000, details |-> "clusters"]>>])>>,
     <<PatternItem("failure",
           [recommendations |-> <<[action |-> "Check network", priority |-> 700000,
                                   details |-> "common cause"],
                                  [action |-> "Scale up"],
                                  [details |-> "no action"]>>]),
       PatternItem("performance",
           [recommendations |-> <<[action |-> "Scale up", priority |-> 750000,
                                   details |-> "bottleneck"],
                                  [action |-> "Check network", priority |-> 300000,
                                   details |-> "trend"]>>])>>,
     <<PatternItem("temporal",
           [items |-> <<PatternItem("daily",
                            [recommendations |-> <<[action |-> "Plan capacity",
                                                    priority |-> 600000,
                                                    details |-> "daily"]>>]),
                        PatternItem("weekly",
                            [recommendations |-> <<[action |-> "Plan capacity",
                                                    priority |-> 650000,
                                                    details |-> "weekly"]>>]),
                        PatternItem("monthly", [peak_months |-> <<>>])>>])>>}

RecInit ==
    /\ recCauses \in SeqsUpTo(CauseCatalogue, MaxCauses)
    /\ patterns_analysis \in PatternCatalogue
    /\ RcaIdle
    /\ TpIdle /\ TrainerIdle /\ ClustersIdle

GenerateRecommendations ==
    /\ rcaCall = NoCall
    /\ rcaCall' = [op |-> "generate_recommendations",
                   out |-> generate_recommendations(recCauses, patterns_analysis)]
    /\ UNCHANGED <<rules, incident, tpVars, recVars, mtVars, paVars>>

RecNext == GenerateRecommendations

SpecRec == RecInit /\ [][RecNext]_vars

RecommendationsDone == rcaCall.op = "generate_recommendations"

\* the entries that went into the prioritisation
InputEntries == CollectRecommendations(recCauses, patterns_analysis)

\* C13: the returned list has no two entries with the same action, is in
\* non-increasing priority_score order, and for each action of the input
\* entries keeps one entry, whose priority_score is the greatest among the
\* input entries with that action.
C13_DeduplicatedDescending ==
    RecommendationsDone =>
        LET out == rcaCall.out
        IN /\ \A i, j \in DOMAIN out : i # j => out[i].action # out[j].action
           /\ \A i, j \in DOMAIN out : i < j => out[i].priority_score >= out[j].priority_score
           /\ \A k \in DOMAIN InputEntries :
                 \E i \in DOMAIN out :
                     /\ out[i].action = InputEntries[k].action
                     /\ out[i].priority_score >= InputEntries[k].priority_score
           /\ \A i \in DOMAIN out : \E k \in DOMAIN InputEntries : out[i] = InputEntries[k]

\* two causes and two pattern types named the same two actions with
\* different scores; one entry of each was kept, the pattern's entry for
\* "Scale up" ahead of the causes'
C13_Witness ==
    /\ RecommendationsDone
    /\ Len(InputEntries) >= 6
    /\ Len(rcaCall.out) = 2
    /\ rcaCall.out[1].action = "Scale up"
    /\ rcaCall.out[1].priority_score = 750000
    /\ rcaCall.out[2].action = "Check network"
    /\ rcaCall.out[2].priority_score = 700000

(***************************************************************************)
(* ArcModelTrainer: the remediation queue                                   *)
(*                                                                          *)
(* A Python value is a tagged record (None, NumV, BoolV, TextV, DictV).     *)
(* A buffered sample is [features, target]; its received_at clock reading   *)
(* is left out.                                                             *)
(***************************************************************************)
default_batch_size == 10

default_model_type == "failure_prediction"

DictV(items) == [k |-> "dict", items |-> items]

\* isinstance(v, dict)
IsDict(v) == v.k = "dict"

AnyValueNumeric(v) == TRUE

\* isinstance(v, (int, float, bool))
IsNumeric(v) == v.k \in {"num", "bool"}

\* bool(v) is False
Falsy(v) ==
    \/ v = None
    \/ v = NumV(0)
    \/ v = BoolV(FALSE)
    \/ v = TextV("")
    \/ v = DictV(EmptyMap)

\* dict.get(key): None when the key is absent
PyGet(items, key) == IF key \in DOMAIN items THEN items[key] ELSE None

\* the texts float() parses
NumericTexts == [s \in {"80"} |-> 80]

\* float(v): [raised, value]
Float(v) ==
    CASE v.k = "num" -> [raised |-> FALSE, value |-> v.v]
      [] v.k = "bool" -> [raised |-> FALSE, value |-> IF v.t THEN 1 ELSE 0]
      [] v.k = "text" /\ v.s \in DOMAIN NumericTexts ->
             [raised |-> FALSE, value |-> NumericTexts[v.s]]
      [] OTHER -> [raised |-> TRUE, value |-> 0]

\* str(remediation_data.get("model_type", "failure_prediction"))
ModelTypeOf(items) ==
    IF "model_type" \in DOMAIN items
    THEN (IF items["model_type"] = None THEN "None" ELSE items["model_type"].s)
    ELSE default_model_type

\* remediation_data.get("features") or remediation_data.get("context")
FeaturesPayload(items) ==
    IF Falsy(PyGet(items, "features")) THEN PyGet(items, "context")
    ELSE PyGet(items, "features")

\* the names recorded by the last training of the model type
RequiredFeatures(importance, model_type) == Get(importance, model_type, <<>>)

\* the feature vector taken from the payload
FeatureVector(payload_items, required_features) ==
    IF required_features # <<>>
    THEN [name \in Range(required_features) |->
             LET raw_val == PyGet(payload_items, name)
             IN IF raw_val = None \/ Float(raw_val).raised THEN 0
                ELSE Float(raw_val).value]
    ELSE [key \in {kk \in DOMAIN payload_items : IsNumeric(payload_items[kk])} |->
             Float(payload_items[key]).value]

\* int(self.config.get("remediation_update_batch_size", 10))
BatchSize(config) == Get(config, "remediation_update_batch_size", default_batch_size)

Rejected(reason) == [status |-> "rejected", reason |-> reason, queued_count |-> 0]

StrictlyAbove(queued_count, threshold) == queued_count > threshold

\* the comparison the status is taken from
AtOrAbove(queued_count, threshold) == queued_count >= threshold

StatusFor(queued_count, threshold) ==
    IF AtOrAbove(queued_count, threshold) THEN "retrain_required" ELSE "queued"

\* mutant: a buffer that has reached two samples is emptied before the next
\* sample is stored
BufferedWithReset(buffer, model_type, sample) ==
    [m \in DOMAIN buffer \cup {model_type} |->
        IF m = model_type
        THEN IF Len(Get(buffer, m, <<>>)) >= 2 THEN <<sample>>
             ELSE Append(Get(buffer, m, <<>>), sample)
        ELSE buffer[m]]

\* the buffer with one more sample of the model type
Buffered(buffer, model_type, sample) ==
    [m \in DOMAIN buffer \cup {model_type} |->
        IF m = model_type THEN Append(Get(buffer, m, <<>>), sample) ELSE buffer[m]]

\* update_models_with_remediation: [buffer, response]
update_models_with_remediation(buffer, importance, config, remediation_data) ==
    IF ~IsDict(remediation_data)
    THEN [buffer |-> buffer, response |-> Rejected("remediation_data must be a dict")]
    ELSE
    LET items == remediation_data.items
        model_type == ModelTypeOf(items)
        features_payload == FeaturesPayload(items)
        target_value == PyGet(items, "target")
    IN IF model_type = ""
       THEN [buffer |-> buffer, response |-> Rejected("model_type missing")]
       ELSE IF ~IsDict(features_payload) \/ features_payload.items = EmptyMap
       THEN [buffer |-> buffer, response |-> Rejected("features missing or not a dict")]
       ELSE IF target_value # None /\ ~IsNumeric(target_value)
       THEN [buffer |-> buffer,
             response |-> Rejected("target must be numeric/bool if provided")]
       ELSE
       LET feature_vector == FeatureVector(features_payload.items,
                                           RequiredFeatures(importance, model_type))
       IN IF DOMAIN feature_vector = {}
          THEN [buffer |-> buffer, response |-> Rejected("no numeric features extracted")]
          ELSE
          LET after == Buffered(buffer, model_type,
                                [features |-> feature_vector, target |-> target_value])
              threshold == BatchSize(config)
              queued_count == Len(after[model_type])
          IN [buffer |-> after,
              response |-> [status |-> StatusFor(queued_count, threshold),
                            reason |-> "models require offline retrain; sample buffered",
                            queued_count |-> queued_count,
                            threshold |-> threshold,
                            model_type |-> model_type]]

\* ---- calls ------------------------------------------------------------------
TrainerConfigs == {EmptyMap, [remediation_update_batch_size |-> 2]}

\* the payload of the queueing test
TestPayload(model_type) ==
    DictV([model_type |-> TextV(model_type),
           features |-> DictV([cpu_usage |-> NumV(80), memory_usage |-> NumV(70)]),
           target |-> NumV(1)])

RepeatedPayloads == {TestPayload("failure_prediction"), TestPayload("health_prediction")}

RemediationPayloads ==
    RepeatedPayloads \cup
    { TextV("not-a-dict"),
      None,
      DictV(EmptyMap),
      DictV([model_type |-> TextV(""),
             features |-> DictV([cpu_usage |-> NumV(80)])]),
      DictV([features |-> TextV("cpu_usage=80")]),
      DictV([features |-> DictV(EmptyMap), context |-> DictV(EmptyMap)]),
      DictV([features |-> DictV(EmptyMap),
             context |-> DictV([cpu_usage |-> BoolV(TRUE), note |-> TextV("restarted")]),
             target |-> BoolV(TRUE)]),
      DictV([features |-> DictV([cpu_usage |-> NumV(80)]), target |-> TextV("fixed")]),
      DictV([features |-> DictV([cpu_usage |-> TextV("high")])]),
      DictV([model_type |-> TextV("health_prediction"),
             features |-> DictV([cpu_usage |-> TextV("80")])]) }

\* the feature names a training records
TrainedNames == <<"cpu_usage", "memory_usage">>

RECURSIVE TotalBuffered(_, _)
TotalBuffered(buffer, types) ==
    IF types = {} THEN 0
    ELSE LET m == CHOOSE x \in types : TRUE
         IN Len(buffer[m]) + TotalBuffered(buffer, types \ {m})

TrainerInit ==
    /\ trainerConfig \in TrainerConfigs
    /\ feature_importance = EmptyMap
    /\ remediation_buffer = EmptyMap
    /\ mtCall = NoCall
    /\ RcaIdle /\ RecIdle /\ TpIdle /\ ClustersIdle

UpdateModelsWithRemediation ==
    \E remediation_data \in RemediationPayloads :
        LET result == update_models_with_remediation(remediation_buffer, feature_importance,
                                                     trainerConfig, remediation_data)
            total == TotalBuffered(remediation_buffer, DOMAIN remediation_buffer)
        IN /\ result.buffer # remediation_buffer =>
                 /\ total < MaxAccepted
                 /\ total >= MaxVaried => remediation_data \in RepeatedPayloads
           /\ remediation_buffer' = result.buffer
           /\ mtCall' = [op |-> "update_models_with_remediation",
                         remediation_data |-> remediation_data,
                         before |-> remediation_buffer,
                         names |-> RequiredFeatures(feature_importance,
                                      IF IsDict(remediation_data)
                                      THEN ModelTypeOf(remediation_data.items)
                                      ELSE default_model_type),
                         response |-> result.response]
           /\ UNCHANGED <<trainerConfig, feature_importance, rcaVars, tpVars, recVars, paVars>>

\* train_failure_prediction_model, as far as the queue sees it
TrainFailurePredictionModel ==
    /\ feature_importance' =
           [m \in DOMAIN feature_importance \cup {default_model_type} |->
               IF m = default_model_type THEN TrainedNames ELSE feature_importance[m]]
    /\ mtCall' = [op |-> "train_failure_prediction_model"]
    /\ UNCHANGED <<trainerConfig, remediation_buffer, rcaVars, tpVars, recVars, paVars>>

TrainerNext == UpdateModelsWithRemediation \/ TrainFailurePredictionModel

SpecTrainer == TrainerInit /\ [][TrainerNext]_vars

Updated == mtCall.op = "update_models_with_remediation"

Accepted == Updated /\ mtCall.response.status \in {"queued", "retrain_required"}

\* the configured batch size, 10 when the configuration names none
ConfiguredBatchSize ==
    IF "remediation_update_batch_size" \in DOMAIN trainerConfig
    THEN trainerConfig["remediation_update_batch_size"]
    ELSE 10

\* C17: an accepted sample is appended to remediation_buffer[model_type] and
\* nothing else in the buffer changes; queued_count is the number of samples
\* buffered so far for that model type; the status is "queued" while
\* queued_count is below remediation_update_batch_size (default 10) and
\* "retrain_required" exactly when it is at or above it; a call that is not
\* accepted is rejected.
C17_QueuedUntilBatchSize ==
    Updated =>
        LET r == mtCall.response
        IN /\ r.status \in {"queued", "retrain_required", "rejected"}
           /\ Accepted =>
                LET m == r.model_type
                    old == IF m \in DOMAIN mtCall.before THEN mtCall.before[m] ELSE <<>>
                    new == remediation_buffer[m]
                IN /\ DOMAIN remediation_buffer = DOMAIN mtCall.before \cup {m}
                   /\ \A o \in DOMAIN mtCall.before \ {m} :
                          remediation_buffer[o] = mtCall.before[o]
                   /\ Len(new) = Len(old) + 1
                   /\ SubSeq(new, 1, Len(old)) = old
                   /\ new[Len(new)].target = PyGet(mtCall.remediation_data.items, "target")
                   /\ DOMAIN new[Len(new)].features # {}
                   /\ r.queued_count = Len(new)
                   /\ (r.status = "queued") <=> (r.queued_count < ConfiguredBatchSize)
                   /\ (r.status = "retrain_required") <=> (r.queued_count >= ConfiguredBatchSize)

\* with no batch size configured, nine samples of the default model type were
\* queued after one of another type, and the tenth asked for the retraining
C17_Witness ==
    /\ Accepted
    /\ trainerConfig = EmptyMap
    /\ mtCall.response.status = "retrain_required"
    /\ mtCall.response.queued_count = 10
    /\ mtCall.response.model_type = "failure_prediction"
    /\ DOMAIN remediation_buffer = {"failure_prediction", "health_prediction"}
    /\ Len(mtCall.before["failure_prediction"]) = 9

\* the ninth sample under the default batch size is only queued
C17_QueuedBelowDefault ==
    /\ Accepted
    /\ trainerConfig = EmptyMap
    /\ mtCall.response.status = "queued"
    /\ mtCall.response.queued_count = 9

NumericOrBool(v) == v.k = "num" \/ v.k = "bool"

NonEmptyDict(items, key) ==
    /\ key \in DOMAIN items
    /\ items[key].k = "dict"
    /\ DOMAIN items[key].items # {}

NotADict(p) == p.k # "dict"

NoFeaturesDict(p) ==
    /\ ~NotADict(p)
    /\ ~NonEmptyDict(p.items, "features")
    /\ ~NonEmptyDict(p.items, "context")

BadTarget(p) ==
    /\ ~NotADict(p)
    /\ "target" \in DOMAIN p.items
    /\ p.items["target"] # None
    /\ ~NumericOrBool(p.items["target"])

\* no feature name is recorded for the model type and no value of the
\* payload's feature dict is a number or a bool
NoNumericFeature(p, names) ==
    /\ ~NotADict(p)
    /\ ~NoFeaturesDict(p)
    /\ names = <<>>
    /\ LET d == IF NonEmptyDict(p.items, "features") THEN p.items["features"].items
                ELSE p.items["context"].items
       IN \A key \in DOMAIN d : ~NumericOrBool(d[key])

InvalidPayload(p, names) ==
    NotADict(p) \/ NoFeaturesDict(p) \/ BadTarget(p) \/ NoNumericFeature(p, names)

\* C18: a payload that is not a dict, carries no non-empty features/context
\* dict, carries a target that is not numeric/bool, or yields no numeric
\* feature is answered with status "rejected", a reason and queued_count 0,
\* and remediation_buffer is left as it was; the reason of a payload whose
\* only fault is the last one is "no numeric features extracted".
C18_InvalidPayloadRejected ==
    (Updated /\ InvalidPayload(mtCall.remediation_data, mtCall.names)) =>
        /\ mtCall.response.status = "rejected"
        /\ mtCall.response.reason # ""
        /\ mtCall.response.queued_count = 0
        /\ remediation_buffer = mtCall.before
        /\ (/\ NoNumericFeature(mtCall.remediation_data, mtCall.names)
            /\ ~BadTarget(mtCall.remediation_data)
            /\ ModelTypeOf(mtCall.remediation_data.items) # "") =>
               mtCall.response.reason = "no numeric features extracted"

\* a payload whose only feature value is a text was rejected while samples
\* were already buffered
C18_Witness ==
    /\ Updated
    /\ NoNumericFeature(mtCall.remediation_data, mtCall.names)
    /\ mtCall.response.status = "rejected"
    /\ mtCall.response.reason = "no numeric features extracted"
    /\ "failure_prediction" \in DOMAIN remediation_buffer
    /\ Len(remediation_buffer["failure_prediction"]) >= 2
    /\ remediation_buffer = mtCall.before

\* a text target was rejected
C18_BadTargetRejected ==
    /\ Updated
    /\ BadTarget(mtCall.remediation_data)
    /\ mtCall.response.reason = "target must be numeric/bool if provided"
    /\ mtCall.before # EmptyMap

\* once feature names are recorded, the same text-only payload is buffered
\* as a vector of zeros
C18_TextOnlyBufferedAfterTraining ==
    /\ Accepted
    /\ mtCall.names # <<>>
    /\ \A key \in DOMAIN mtCall.remediation_data.items["features"].items :
           ~NumericOrBool(mtCall.remediation_data.items["features"].items[key])

(***************************************************************************)
(* Insight generation as a state machine: _generate_trend_insights and      *)
(* _generate_insights on the trends of a batch                              *)
(***************************************************************************)
\* lines 442 and 449: the rows of a window, those later than its start
WindowAfter(frame, from) ==
    [frame EXCEPT !.rows = SelectSeq(frame.rows, LAMBDA r : r["timestamp"].v > from)]

\* lines 438-453: the period trends of a batch with a timestamp column, for
\* the window starts that datetime.now() gives
PeriodTrendsAt(frame, config, short_from, long_from) ==
    [short_term |-> calculate_period_trends(WindowAfter(frame, short_from), config),
     long_term |-> calculate_period_trends(WindowAfter(frame, long_from), config)]

InsightRows == [timestamp : {NumV(0), NumV(1), NumV(2)}, cpu_usage : {NumV(0), NumV(3)}]

InsightFrames ==
    {Frame(<<"timestamp", "cpu_usage">>, rows, "datetime64[ns]") :
        rows \in SeqsUpTo(InsightRows, MaxRows)}

InsightConfigs ==
    {EmptyMap, [trend_p_value_threshold |-> Rat(1, 2)], [trend_slope_threshold |-> Rat(2, 1)]}

WindowStarts == {-1, 0, 1}

\* nested feature mappings as _extract_features returns them
InsightFeatures ==
    {[cpu |-> [average |-> cpu], memory |-> [average |-> mem], derived |-> derived] :
        cpu \in {Rat(1, 2), Rat(95, 1)},
        mem \in {Rat(50, 1)},
        derived \in {EmptyMap, [error_rate |-> Rat(3, 20)]}}
    \cup {[cpu |-> [average |-> Rat(1, 2)], memory |-> [average |-> Rat(95, 1)],
           derived |-> [error_rate |-> Rat(1, 20)]]}

\* results of _detect_anomalies: nothing detected, and one anomaly
AnomalyResults ==
    {[detected |-> FALSE, details |-> <<>>],
     [detected |-> TRUE,
      details |-> <<[distance_score |-> Rat(3, 1), threshold_value |-> Rat(5, 2),
                     anomalous_feature_values |-> [cpu_usage_avg |-> Rat(95, 1)]]>>]}

InsightInit ==
    /\ tpConfig \in InsightConfigs
    /\ telemetry_data \in InsightFrames
    /\ df = telemetry_data
    /\ prepared = 0
    /\ tpCall = NoCall
    /\ RcaIdle /\ RecIdle /\ TrainerIdle /\ ClustersIdle

GenerateTrendInsights ==
    /\ tpCall = NoCall
    /\ \E short_from, long_from \in WindowStarts :
          /\ long_from <= short_from
          /\ LET trends == PeriodTrendsAt(df, tpConfig, short_from, long_from)
             IN tpCall' = [op |-> "_generate_trend_insights", trends |-> trends,
                           out |-> generate_trend_insights(trends, tpConfig)]
    /\ UNCHANGED <<tpConfig, telemetry_data, df, prepared, rcaVars, recVars, mtVars, paVars>>

GenerateInsights ==
    /\ tpCall = NoCall
    /\ \E features \in InsightFeatures, anomalies \in AnomalyResults :
          LET trends == PeriodTrendsAt(df, tpConfig, -1, -1)
          IN tpCall' = [op |-> "_generate_insights", features |-> features,
                        anomalies |-> anomalies, trends |-> trends,
                        out |-> generate_insights(features, anomalies, trends, tpConfig)]
    /\ UNCHANGED <<tpConfig, telemetry_data, df, prepared, rcaVars, recVars, mtVars, paVars>>

InsightNext == GenerateTrendInsights \/ GenerateInsights

SpecInsights == InsightInit /\ [][InsightNext]_vars

TrendInsightsGenerated == tpCall.op = "_generate_trend_insights"

InsightsGenerated == tpCall.op = "_generate_insights"

\* the trend insights of a call for one metric and window
InsightsFor(out, period_type, feature) ==
    {i \in DOMAIN out : /\ out[i].type = "trend"
                         /\ out[i].period = period_type
                         /\ out[i].component = feature}

\* C24: _generate_trend_insights emits a trend insight for a metric and a
\* window exactly when the trend's p_value is below the significance
\* threshold and its direction is not 'stable'; every trend insight has
\* priority 'medium', and every insight of a detected anomaly has priority
\* 'high'
C24_TrendInsightIffSignificantAndDirected ==
    /\ TrendInsightsGenerated =>
          /\ \A period_type \in DOMAIN tpCall.trends :
                \A feature \in DOMAIN tpCall.trends[period_type] :
                    LET trend_info == tpCall.trends[period_type][feature]
                    IN InsightsFor(tpCall.out, period_type, feature) # {}
                       <=> /\ ReportedPBelow(trend_info.p_value,
                                             PValueThreshold(tpConfig))
                           /\ trend_info.direction # "stable"
          /\ \A i \in DOMAIN tpCall.out :
                /\ tpCall.out[i].type = "trend"
                /\ tpCall.out[i].priority = "medium"
                /\ tpCall.out[i].period \in DOMAIN tpCall.trends
                /\ tpCall.out[i].component \in DOMAIN tpCall.trends[tpCall.out[i].period]
    /\ InsightsGenerated =>
          \A i \in DOMAIN tpCall.out :
              /\ tpCall.out[i].type = "trend" => tpCall.out[i].priority = "medium"
              /\ tpCall.out[i].type = "anomaly" => tpCall.out[i].priority = "high"

\* a call that reports the long window's trend and not the short window's
C24_Witness ==
    /\ TrendInsightsGenerated
    /\ Len(tpCall.out) = 1
    /\ tpCall.out[1].period = "long_term"
    /\ tpCall.out[1].priority = "medium"
    /\ "cpu_usage" \in DOMAIN tpCall.trends["short_term"]
    /\ tpCall.trends["long_term"]["cpu_usage"].direction = "decreasing"

\* a significant trend whose direction is 'stable' is not reported
C24_SignificantStableNotReported ==
    /\ TrendInsightsGenerated
    /\ tpCall.out = <<>>
    /\ "cpu_usage" \in DOMAIN tpCall.trends["long_term"]
    /\ tpCall.trends["long_term"]["cpu_usage"].significant
    /\ tpCall.trends["long_term"]["cpu_usage"].direction = "stable"

\* _generate_insights returns an anomaly insight next to a trend insight
C24_AnomalyAndTrendInsight ==
    /\ InsightsGenerated
    /\ \E i, j \in DOMAIN tpCall.out :
          tpCall.out[i].type = "anomaly" /\ tpCall.out[j].type = "trend"

\* C26: the insight list returned by _generate_insights is ranked by
\* priority: no 'medium' insight precedes a 'high' one
C26_NoMediumBeforeHigh ==
    InsightsGenerated =>
        \A i, j \in DOMAIN tpCall.out :
            (tpCall.out[i].priority = "medium" /\ tpCall.out[j].priority = "high")
                => j < i

KindRank(insight) ==
    CASE insight.type = "performance" -> 1
      [] insight.type \in {"anomaly", "anomaly_error"} -> 2
      [] OTHER -> 3

\* the list is in generation order: performance insights, then anomaly
\* insights, then trend insights
C26_OrderedByKind ==
    InsightsGenerated =>
        \A i, j \in DOMAIN tpCall.out :
            i < j => KindRank(tpCall.out[i]) <= KindRank(tpCall.out[j])

\* the medium error-rate insight comes before the high anomaly insight
C26_MediumBeforeHigh ==
    /\ InsightsGenerated
    /\ tpCall.features["derived"] = [error_rate |-> Rat(3, 20)]
    /\ tpCall.anomalies.detected
    /\ Len(tpCall.out) >= 2
    /\ tpCall.out[1].type = "performance" /\ tpCall.out[1].priority = "medium"
    /\ tpCall.out[2].type = "anomaly" /\ tpCall.out[2].priority = "high"

(***************************************************************************)
(* Properties of the metric conditions of the root-cause estimator          *)
(***************************************************************************)
NormalizedRule(i) == NormalizeRule(rules[i][1], rules[i][2])

\* the condition was evaluated against a number of the incident and holds
EvaluatedAndMet(cond, metrics) ==
    LET val == ConditionValue(cond, metrics)
        operator == Get(cond, "operator", ">")
    IN /\ val.k = "num"
       /\ \/ operator = ">" /\ val.v > cond["threshold"]
          \/ operator = ">=" /\ val.v >= cond["threshold"]
          \/ operator = "<" /\ val.v < cond["threshold"]
          \/ operator = "<=" /\ val.v <= cond["threshold"]
          \/ operator = "==" /\ val.v = cond["threshold"]

\* C28: a rule's metric-threshold group counts as satisfied only if every
\* one of its conditions was evaluated and met; a condition with an
\* unsupported operator does not count as met, so a rule that has one neither
\* fires nor earns the multi-condition boost
C28_EveryConditionEvaluatedAndMet ==
    Predicted =>
        \A i \in FiredIn(rcaCall.out) :
            LET r == NormalizedRule(i)
            IN Truthy(r, "metrics_thresholds") =>
                  \A k \in DOMAIN r["metrics_thresholds"] :
                      EvaluatedAndMet(r["metrics_thresholds"][k], IncidentMetrics(incident))

\* what holds: every condition of a fired rule found a number or NaN, and
\* was met unless its operator is unsupported
C28_SupportedConditionsMet ==
    Predicted =>
        \A i \in FiredIn(rcaCall.out) :
            LET r == NormalizedRule(i)
            IN Truthy(r, "metrics_thresholds") =>
                  \A k \in DOMAIN r["metrics_thresholds"] :
                      LET cond == r["metrics_thresholds"][k]
                      IN \/ EvaluatedAndMet(cond, IncidentMetrics(incident))
                         \/ /\ Get(cond, "operator", ">") \notin SupportedOperators
                            /\ ConditionValue(cond, IncidentMetrics(incident)).k
                                   \in {"num", "nan"}

\* the rule whose only condition has the operator '!=' fires with the boost
C28_FiredOnUnsupportedOperator ==
    /\ Predicted
    /\ \E i \in FiredIn(rcaCall.out) :
          /\ rules[i][1] = "odd_operator_rule"
          /\ CandidateOf(rcaCall.out, i).confidence = ConfidenceCap

(***************************************************************************)
(* The two shapes of an incident: predict_root_cause on an incident with a  *)
(* nested metrics mapping and on the same incident with the metrics as      *)
(* top-level fields                                                         *)
(***************************************************************************)
\* the incident with its metrics moved to the top level and no metrics mapping
Flattened(incident_data) ==
    LET metrics == Get(incident_data, "metrics", EmptyMap)
    IN [k \in ((DOMAIN incident_data) \ {"metrics"}) \cup DOMAIN metrics |->
           IF k \in DOMAIN metrics THEN metrics[k] ELSE incident_data[k]]

\* rules with exact-name and name-contains conditions
ShapeRuleCatalogue == <<
    RuleCatalogue[1], RuleCatalogue[3], RuleCatalogue[6], RuleCatalogue[8],
    <<"slow_rule", [keywords_any |-> <<>>,
                    metrics_thresholds |-> <<[metric_contains |-> "time", threshold |-> 5]>>,
                    cause |-> "Slow Response", impact_score |-> 600]>>,
    <<"clock_rule", [keywords_any |-> <<>>,
                     metrics_thresholds |-> <<[metric |-> "timestamp", threshold |-> 0,
                                               operator |-> ">"]>>,
                     cause |-> "Clock Skew", impact_score |-> 400]>>
  >>

RECURSIVE ShapeRuleLists(_)
ShapeRuleLists(n) ==
    IF n = 0 THEN {<<>>}
    ELSE LET shorter == ShapeRuleLists(n - 1)
         IN shorter \cup
            {Append(rs, ShapeRuleCatalogue[i]) :
                <<rs, i>> \in {p \in shorter \X DOMAIN ShapeRuleCatalogue :
                                  /\ Len(p[1]) = n - 1
                                  /\ \A j \in DOMAIN p[1] : p[1][j] # ShapeRuleCatalogue[p[2]]}}

\* metric mappings, some with a response time and some with a metric named
\* like a field of the incident itself
ShapeMetricMaps ==
    {m \in UNION {[S -> {NumV(2), NumV(50), NumV(80), NumV(92), NumV(95), NumV(1700)}] :
                     S \in SUBSET {"cpu_usage_avg", "cpu_peak", "mem_usage",
                                   "response_time", "timestamp"}} :
        /\ "cpu_usage_avg" \in DOMAIN m => m["cpu_usage_avg"] \in {NumV(50), NumV(92)}
        /\ "cpu_peak" \in DOMAIN m => m["cpu_peak"] = NumV(80)
        /\ "mem_usage" \in DOMAIN m => m["mem_usage"] = NumV(95)
        /\ "response_time" \in DOMAIN m => m["response_time"] = NumV(2)
        /\ "timestamp" \in DOMAIN m => m["timestamp"] = NumV(1700)}

\* the incident with one more top-level field
WithField(incident_data, key, value) ==
    [k \in (DOMAIN incident_data) \cup {key} |->
        IF k = key THEN value ELSE incident_data[k]]

\* incidents with a nested metrics mapping, some with a numeric field of
\* their own at the top level
ShapeIncidents ==
    {NestedIncident(d, m) : d \in FlatDescriptions, m \in ShapeMetricMaps}
    \cup {WithField(NestedIncident(d, m), "cpu_peak", NumV(80)) :
             d \in FlatDescriptions,
             m \in {mm \in ShapeMetricMaps : "cpu_peak" \notin DOMAIN mm}}

\* the incident has no field of its own that the estimator would read as a
\* metric, and no metric named like a field it keeps out of the metrics
PlainShape(incident_data) ==
    /\ DOMAIN incident_data["metrics"] \cap ReservedKeys = {}
    /\ DOMAIN incident_data \subseteq ReservedKeys

ShapeInit ==
    /\ rules \in ShapeRuleLists(MaxRules)
    /\ incident \in ShapeIncidents
    /\ rcaCall = NoCall
    /\ TpIdle /\ RecIdle /\ TrainerIdle /\ ClustersIdle

\* the estimator called on the incident and on its flattened form
PredictBothShapes ==
    /\ rcaCall = NoCall
    /\ rcaCall' = [op |-> "predict_root_cause",
                   out |-> predict_root_cause(rules, incident),
                   flattened |-> Flattened(incident),
                   out_flattened |-> predict_root_cause(rules, Flattened(incident))]
    /\ UNCHANGED <<rules, incident, tpVars, recVars, mtVars, paVars>>

ShapeNext == PredictBothShapes

SpecShapes == ShapeInit /\ [][ShapeNext]_vars

BothShapesPredicted == rcaCall.op = "predict_root_cause" /\ "out_flattened" \in DOMAIN rcaCall

\* C25: predict_root_cause returns the same candidate list for an incident
\* whose metrics are in a nested metrics mapping as for the same incident
\* with the metrics as top-level fields and no metrics mapping, for
\* exact-name and for name-contains conditions
C25_SameCandidatesForBothShapes ==
    BothShapesPredicted => rcaCall.out = rcaCall.out_flattened

\* the same, for incidents that have no top-level field besides the reserved
\* ones and no metric named like a reserved field
C25_SameCandidatesForPlainShapes ==
    (BothShapesPredicted /\ PlainShape(incident))
        => rcaCall.out = rcaCall.out_flattened

\* an exact-name and a name-contains rule fire on both shapes
C25_Witness ==
    /\ BothShapesPredicted
    /\ PlainShape(incident)
    /\ "metrics" \notin DOMAIN rcaCall.flattened
    /\ Len(rules) = 2
    /\ rules[1][1] = "cpu_rule" /\ rules[2][1] = "usage_rule"
    /\ Len(rcaCall.out_flattened) = 2
    /\ FallbackType \notin TypesOf(rcaCall.out_flattened)

\* a metric named timestamp is read from the nested mapping and lost from
\* the flattened incident
C25_ReservedNameLost ==
    /\ BothShapesPredicted
    /\ "timestamp" \in DOMAIN incident["metrics"]
    /\ "Slow Response" \in TypesOf(rcaCall.out)
    /\ "Slow Response" \notin TypesOf(rcaCall.out_flattened)

\* a numeric top-level field next to the metrics mapping is a metric of the
\* flattened incident only
C25_TopLevelFieldGained ==
    /\ BothShapesPredicted
    /\ "cpu_peak" \in DOMAIN incident
    /\ DOMAIN incident["metrics"] = {"cpu_usage_avg"}
    /\ "CPU Overload Test" \notin TypesOf(rcaCall.out)
    /\ "CPU Overload Test" \in TypesOf(rcaCall.out_flattened)

(***************************************************************************)
(* Skipped conditions of the multi-metric rules                             *)
(***************************************************************************)
\* the condition is compared with the batch: it names a metric, an operator
\* and a threshold, the metric is a column and the operator is supported
EvaluatedCondition(cond, frame) ==
    /\ "metric" \in DOMAIN cond /\ "operator" \in DOMAIN cond /\ "threshold" \in DOMAIN cond
    /\ cond["metric"] \in Range(frame.cols)
    /\ cond["operator"] \in {">", "<", ">=", "<=", "==", "!="}

\* the condition is skipped: a field is missing or the operator is unsupported
SkippedCondition(cond, frame) ==
    \/ "metric" \notin DOMAIN cond \/ "operator" \notin DOMAIN cond
    \/ "threshold" \notin DOMAIN cond
    \/ cond["metric"] \in Range(frame.cols)
          /\ cond["operator"] \notin {">", "<", ">=", "<=", "==", "!="}

\* C27: a multi-metric rule is reported by _detect_anomalous_patterns only if
\* at least one of its conditions was evaluated against the batch; a rule
\* whose conditions are all skipped is not reported for any batch
C27_ReportedOnlyIfEvaluated ==
    PatternsDone =>
        \A i \in DOMAIN ConfiguredPatternRules :
            ConfiguredPatternRules[i].name \in DOMAIN tpCall.out =>
                \E c \in DOMAIN ConfiguredPatternRules[i].conditions :
                    EvaluatedCondition(ConfiguredPatternRules[i].conditions[c], df)

\* what holds: a reported rule none of whose conditions was evaluated is
\* reported with every row of the batch
C27_UnevaluatedRuleCountsEveryRow ==
    PatternsDone =>
        \A i \in DOMAIN ConfiguredPatternRules :
            LET rule == ConfiguredPatternRules[i]
            IN (/\ rule.name \in DOMAIN tpCall.out
                /\ \A c \in DOMAIN rule.conditions : ~EvaluatedCondition(rule.conditions[c], df))
                   => /\ rule.conditions # <<>>
                      /\ \A c \in DOMAIN rule.conditions : SkippedCondition(rule.conditions[c], df)
                      /\ tpCall.out[rule.name].count = Len(df.rows)

\* the rule whose two conditions are both skipped is reported with both rows
C27_AllSkippedReported ==
    /\ PatternsDone
    /\ Len(df.rows) = 2
    /\ "AllSkipped" \in DOMAIN tpCall.out
    /\ tpCall.out["AllSkipped"].count = 2

(***************************************************************************)
(* Cluster summary of the pattern analyzer: analyze_clusters on a feature   *)
(* array and the labels DBSCAN gave its rows                                *)
(***************************************************************************)
MaxPoints == 4

\* round(x, 3) of the fraction num / den, in thousandths: to the nearest,
\* ties to even
Round3(num, den) ==
    LET q == (1000 * num) \div den
        r == (1000 * num) % den
    IN IF 2 * r < den THEN q
       ELSE IF 2 * r > den THEN q + 1
       ELSE IF q % 2 = 0 THEN q ELSE q + 1

\* mutant: the noise points are not counted
ZeroNoise(lbls) == 0

\* line 673: list(labels).count(-1)
NoiseCount(lbls) == Cardinality({p \in DOMAIN lbls : lbls[p] = -1})

\* line 672: len(set(labels)) - (1 if -1 in labels else 0)
ClusterCount(lbls) ==
    Cardinality(Range(lbls)) - (IF -1 \in Range(lbls) THEN 1 ELSE 0)

\* line 679: features_array[labels == i]
ClusterPoints(array, lbls, i) ==
    LET members == SelectSeq([p \in DOMAIN lbls |-> p], LAMBDA p : lbls[p] = i)
    IN [k \in DOMAIN members |-> array[members[k]]]

\* f'cluster_{i}'
ClusterName(i) ==
    CASE i = 0 -> "cluster_0" [] i = 1 -> "cluster_1" [] i = 2 -> "cluster_2"
      [] i = 3 -> "cluster_3" [] i = 4 -> "cluster_4" [] OTHER -> "cluster_5"

\* lines 682-688: mean and variance of feature j over the points, rounded
CenterOf(points, j) ==
    Round3(SumSeq([k \in DOMAIN points |-> points[k][j]]), Len(points))

VarianceOf(points, j) ==
    LET n == Len(points)
        sum == SumSeq([k \in DOMAIN points |-> points[k][j]])
        squares == SumSeq([k \in DOMAIN points |-> points[k][j] * points[k][j]])
    IN Round3(n * squares - sum * sum, n * n)

\* lines 690-696
ClusterEntry(points, feature_names) ==
    [size |-> Len(points),
     center_features |-> [j \in DOMAIN feature_names |-> CenterOf(points, j)],
     variance_features |-> [j \in DOMAIN feature_names |-> VarianceOf(points, j)]]

\* PatternAnalyzer.analyze_clusters
analyze_clusters(array, lbls, feature_names) ==
    LET n_clusters == ClusterCount(lbls)
        n_noise == NoiseCount(lbls)
        filled == {i \in 0..(n_clusters - 1) : ClusterPoints(array, lbls, i) # <<>>}
        keys == {ClusterName(i) : i \in filled}
                \cup (IF n_noise > 0 THEN {"noise_points"} ELSE {})
    IN [key \in keys |->
           IF key = "noise_points"
           THEN [size |-> n_noise,
                 description |-> "Points not assigned to any cluster by DBSCAN."]
           ELSE ClusterEntry(ClusterPoints(array, lbls,
                                 CHOOSE i \in filled : ClusterName(i) = key),
                             feature_names)]

FeatureNames == <<"f1", "f2">>

PointRows == {<<1, 2>>, <<3, 4>>}

\* DBSCAN.labels_: -1 for noise, and the clusters numbered from 0 without a gap
DbscanLabels(n) ==
    {l \in [1..n -> -1..(n - 1)] :
        \A p \in 1..n : \A i \in 0..(l[p] - 1) : \E q \in 1..n : l[q] = i}

ClustersInit ==
    /\ \E n \in 1..MaxPoints :
          /\ features_array \in [1..n -> PointRows]
          /\ labels \in DbscanLabels(n)
    /\ paCall = NoCall
    /\ RcaIdle /\ RecIdle /\ TpIdle /\ TrainerIdle

AnalyzeClusters ==
    /\ paCall = NoCall
    /\ paCall' = [op |-> "analyze_clusters",
                  out |-> analyze_clusters(features_array, labels, FeatureNames)]
    /\ UNCHANGED <<features_array, labels, rcaVars, tpVars, recVars, mtVars>>

ClustersNext == AnalyzeClusters

SpecClusters == ClustersInit /\ [][ClustersNext]_vars

ClustersAnalyzed == paCall.op = "analyze_clusters"

RECURSIVE SizeSum(_, _)
SizeSum(summary, keys) ==
    IF keys = {} THEN 0
    ELSE LET key == CHOOSE x \in keys : TRUE
         IN summary[key].size + SizeSum(summary, keys \ {key})

\* C29: in the summary returned by analyze_clusters every input point is
\* accounted for exactly once: the sizes of the cluster_i entries plus the
\* size of noise_points sum to the number of input samples, and noise_points
\* is present if and only if at least one point has the label -1
C29_EveryPointAccountedOnce ==
    ClustersAnalyzed =>
        /\ SizeSum(paCall.out, DOMAIN paCall.out) = Len(features_array)
        /\ ("noise_points" \in DOMAIN paCall.out) <=> (\E p \in DOMAIN labels : labels[p] = -1)
        /\ \A p \in DOMAIN labels :
              labels[p] >= 0 => ClusterName(labels[p]) \in DOMAIN paCall.out

\* two clusters of different sizes next to one noise point
C29_Witness ==
    /\ ClustersAnalyzed
    /\ Len(features_array) = 4
    /\ DOMAIN paCall.out = {"cluster_0", "cluster_1", "noise_points"}
    /\ paCall.out["cluster_0"].size = 2
    /\ paCall.out["cluster_1"].size = 1
    /\ paCall.out["noise_points"].size = 1

\* the summary of the two points (1, 2) and (3, 4) in one cluster
C29_TwoPointsOneCluster ==
    /\ ClustersAnalyzed
    /\ features_array = <<<<1, 2>>, <<3, 4>>>>
    /\ labels = <<0, 0>>
    /\ paCall.out = ("cluster_0" :> [size |-> 2,
                                     center_features |-> <<2000, 3000>>,
                                     variance_features |-> <<1000, 1000>>])

(***************************************************************************)
(* The remediation buffer over a sequence of calls                          *)
(***************************************************************************)
ModelTypes == {"failure_prediction", "health_prediction"}

AcceptedFor(m) == Accepted /\ mtCall.response.model_type = m

RetrainRequiredFor(m) == AcceptedFor(m) /\ mtCall.response.status = "retrain_required"

\* no step takes a sample out of the buffer: every model type stays, and its
\* samples stay at the front of its list
BufferKept ==
    \A m \in DOMAIN remediation_buffer :
        /\ m \in DOMAIN remediation_buffer'
        /\ Len(remediation_buffer'[m]) >= Len(remediation_buffer[m])
        /\ SubSeq(remediation_buffer'[m], 1, Len(remediation_buffer[m]))
               = remediation_buffer[m]

\* C30: the trainer never removes samples from remediation_buffer: for each
\* model type the buffered count is non-decreasing over any sequence of
\* update_models_with_remediation calls, so once a call has returned
\* "retrain_required" for a model type, every later accepted call for that
\* model type also returns "retrain_required"
C30_BufferNeverShrinks ==
    /\ [][BufferKept]_vars
    /\ \A m \in ModelTypes :
          [](RetrainRequiredFor(m) => [](AcceptedFor(m) => RetrainRequiredFor(m)))

\* a later accepted call for a model type that already required a retrain,
\* with samples of the other model type buffered in between
C30_Witness ==
    /\ RetrainRequiredFor("failure_prediction")
    /\ mtCall.response.queued_count > mtCall.response.threshold
    /\ "health_prediction" \in DOMAIN remediation_buffer
    /\ Len(remediation_buffer["failure_prediction"]) = mtCall.response.queued_count

====
